---- MODULE Spec2Model ----
(***************************************************************************)
(* Intcode virtual machine of advent-of-code-2019.                         *)
(*                                                                         *)
(*   src/src/intcode.rs         queue based VM (input VecDeque, output Vec)*)
(*   src/src/intcode/memory.rs  Memory of the channel based VM             *)
(*   src/src/intcode/vm.rs      channel based VM (async streams)           *)
(*   src/src/bin/day07.rs       amplifier chain built from channel VMs     *)
(*                                                                         *)
(* Memory is a TLA+ sequence: address a is element a + 1.  A Rust panic is *)
(* a record [msg, args] holding the panic message and its format           *)
(* arguments; NoPanic is the absence of one.  Cell values stay far inside  *)
(* i32 for every program enumerated here, so Value arithmetic is the       *)
(* integers' arithmetic.                                                   *)
(***************************************************************************)
EXTENDS Integers, Sequences, FiniteSets, TLC

\* ------------------------------------------------------------------ bounds
\* operand cells of the enumerated programs range over -1 .. MaxCell
MaxCell == 2
\* number of step() calls explored from construction
MaxSteps == 4
\* longest input sequence handed to input()
MaxInput == 2
\* longest Memory the Memory calls are applied to
MaxMem == 2
\* the test programs of day 5 are given the inputs -1 .. MaxX
MaxX == 9
\* number of step() calls explored for the test programs of day 5
MaxTestSteps == 10

\* ------------------------------------------------------------- arithmetic
\* Rust's / on i32 truncates towards zero (the divisor here is positive)
TruncDiv(a, b) == IF a >= 0 THEN a \div b ELSE -((-a) \div b)

\* Rust's % on i32: the remainder has the sign of the dividend
TruncRem(a, b) == a - b * TruncDiv(a, b)

Min(a, b) == IF a <= b THEN a ELSE b

\* Largest Address.  usize::MAX (2^64 - 1) is beyond TLC's integers; this
\* stand-in keeps what the code depends on: it exceeds every memory size and
\* every cell value, and usize::MAX + 1 wraps to 0.
UsizeMax == 1073741823

\* `value as Address`: a negative i32 wraps to the top of the address range
AsAddress(v) == IF v >= 0 THEN v ELSE UsizeMax + 1 + v

\* ----------------------------------------------------------------- panics
NoPanic == [msg |-> "", args |-> <<>>]

Panic(msg, args) == [msg |-> msg, args |-> args]

MsgReadOutOfBounds == "Reading from memory out of bounds"
MsgWriteOutOfBounds == "Writing to memory out of bounds"
MsgIndexOutOfBounds == "index out of bounds"
MsgAddOverflow == "attempt to add with overflow"
MsgUnknownMode == "Unknown parameter mode"
MsgUnknownOpcode == "Unknown opcode"
MsgStoreImmediate == "Can't store to immediate mode parameter"
MsgNoInputLeft == "No input values left"
MsgNoInputChannel == "No input channel set"
MsgInputClosed == "No input values left (input channel closed)"
MsgNoOutputChannel == "No output channel set"
MsgOutputAlreadySet == "Output stream already set"

\* ----------------------------------------------------------------- Memory
MemSize(m) == Len(m)

\* mutant: the bounds check of get admits the address one past the end
MemGetInclusive(m, addr) ==
    IF addr <= MemSize(m)
    THEN [panic |-> NoPanic, val |-> IF addr < MemSize(m) THEN m[addr + 1] ELSE 0]
    ELSE [panic |-> Panic(MsgReadOutOfBounds, <<addr, MemSize(m)>>), val |-> 0]

\* Memory::get: [panic, val]
MemGet(m, addr) ==
    IF addr < MemSize(m)
    THEN [panic |-> NoPanic, val |-> m[addr + 1]]
    ELSE [panic |-> Panic(MsgReadOutOfBounds, <<addr, MemSize(m)>>), val |-> 0]

\* Memory::get_slice: [panic, val]; `checks` is whether the build has
\* overflow checks (debug) or wraps (release) in addr + len
MemGetSlice(m, addr, len, checks) ==
    LET sum == addr + len
        overflow == sum > UsizeMax
        addr_end == Min(IF overflow THEN sum - UsizeMax - 1 ELSE sum, MemSize(m))
    IN  IF overflow /\ checks
        THEN [panic |-> Panic(MsgAddOverflow, <<>>), val |-> <<>>]
        ELSE IF addr < MemSize(m)
        THEN [panic |-> NoPanic, val |-> SubSeq(m, addr + 1, addr_end)]
        ELSE [panic |-> Panic(MsgReadOutOfBounds, <<addr, addr_end, MemSize(m)>>),
              val |-> <<>>]

\* mutant: set inserts the value at the address instead of replacing the cell
MemSetInserts(m, addr, value) ==
    IF addr < MemSize(m)
    THEN [panic |-> NoPanic,
          val |-> SubSeq(m, 1, addr) \o <<value>> \o SubSeq(m, addr + 1, Len(m))]
    ELSE [panic |-> Panic(MsgWriteOutOfBounds, <<addr, MemSize(m)>>), val |-> m]

\* Memory::set: [panic, val] with val the memory afterwards
MemSet(m, addr, value) ==
    IF addr < MemSize(m)
    THEN [panic |-> NoPanic, val |-> [m EXCEPT ![addr + 1] = value]]
    ELSE [panic |-> Panic(MsgWriteOutOfBounds, <<addr, MemSize(m)>>), val |-> m]

\* ------------------------------------------------------------------ Param
Position(addr) == [mode |-> "Position", v |-> addr, panic |-> NoPanic]

Immediate(value) == [mode |-> "Immediate", v |-> value, panic |-> NoPanic]

NoParam(p) == [mode |-> "Panic", v |-> 0, panic |-> p]

\* mutant: a cell missing from the slice reads as 0
SliceIndexPadsZero(mem, i) ==
    IF i < Len(mem)
    THEN [panic |-> NoPanic, val |-> mem[i + 1]]
    ELSE [panic |-> NoPanic, val |-> 0]

\* the slice index mem[1 + n] of Param::parse: [panic, val]
SliceIndex(mem, i) ==
    IF i < Len(mem)
    THEN [panic |-> NoPanic, val |-> mem[i + 1]]
    ELSE [panic |-> Panic(MsgIndexOutOfBounds, <<Len(mem), i>>), val |-> 0]

\* the mode digit of parameter n: mem[0] / div % 10
ModeOf(cell, n) == TruncRem(TruncDiv(cell, (10 ^ n) * 100), 10)

\* mutant: every mode digit but 0 is taken as Immediate
ParamParseLenient(mem, n) ==
    LET mode == ModeOf(mem[1], n)
        cell == SliceIndex(mem, 1 + n)
    IN  IF cell.panic # NoPanic THEN NoParam(cell.panic)
        ELSE IF mode = 0 THEN Position(AsAddress(cell.val))
        ELSE Immediate(cell.val)

\* Param::parse(mem, n), n zero based
ParamParse(mem, n) ==
    LET mode == ModeOf(mem[1], n)
        cell == SliceIndex(mem, 1 + n)
    IN  CASE mode = 0 ->
               IF cell.panic = NoPanic THEN Position(AsAddress(cell.val))
               ELSE NoParam(cell.panic)
          [] mode = 1 ->
               IF cell.panic = NoPanic THEN Immediate(cell.val)
               ELSE NoParam(cell.panic)
          [] OTHER -> NoParam(Panic(MsgUnknownMode, <<mode, n, mem[1]>>))

\* Param::fetch: [panic, val]
Fetch(p, memory) ==
    IF p.mode = "Position" THEN MemGet(memory, p.v)
    ELSE [panic |-> NoPanic, val |-> p.v]

\* mutant: a store to an immediate parameter is dropped silently
StoreDropsImmediate(p, memory, value) ==
    IF p.mode = "Position" THEN MemSet(memory, p.v, value)
    ELSE [panic |-> NoPanic, val |-> memory]

\* Param::store: [panic, val] with val the memory afterwards
Store(p, memory, value) ==
    IF p.mode = "Position" THEN MemSet(memory, p.v, value)
    ELSE [panic |-> Panic(MsgStoreImmediate, <<>>), val |-> memory]

\* ------------------------------------------------------------ Instruction
\* number of parameters Instruction::parse decodes for an opcode
Arity(opcode) ==
    CASE opcode \in {1, 2, 7, 8} -> 3
      [] opcode \in {5, 6} -> 2
      [] opcode \in {3, 4} -> 1
      [] OTHER -> 0

OpName(opcode) ==
    CASE opcode = 1 -> "Add"
      [] opcode = 2 -> "Multiply"
      [] opcode = 3 -> "Input"
      [] opcode = 4 -> "Output"
      [] opcode = 5 -> "JumpIfNotZero"
      [] opcode = 6 -> "JumpIfZero"
      [] opcode = 7 -> "LessThan"
      [] opcode = 8 -> "Equals"
      [] opcode = 99 -> "Done"
      [] OTHER -> "Unknown"

\* mutant: the mathematical modulo, which maps -1 to 99
OpcodeOfFloorMod(cell) == cell % 100

\* the opcode selector of Instruction::parse: mem[0] % 100
OpcodeOf(cell) == TruncRem(cell, 100)

\* Instruction::parse(mem): [op, p, panic]; the parameters are parsed in
\* order, so the first one that panics decides the panic
InstrParse(mem) ==
    LET opcode == OpcodeOf(mem[1])
        op == OpName(opcode)
        p == [n \in 1..Arity(opcode) |-> ParamParse(mem, n - 1)]
        bad == {n \in 1..Arity(opcode) : p[n].panic # NoPanic}
        first == CHOOSE n \in bad : \A k \in bad : n <= k
    IN  IF op = "Unknown"
        THEN [op |-> op, p |-> <<>>, panic |-> Panic(MsgUnknownOpcode, <<opcode>>)]
        ELSE IF bad # {}
        THEN [op |-> op, p |-> <<>>, panic |-> p[first].panic]
        ELSE [op |-> op, p |-> p, panic |-> NoPanic]

\* ---------------------------------------------------------------- execute
\* a panic unwinds out of step(): the VM keeps what was done before it
Fail(vm, p) == [vm EXCEPT !.panic = p]

\* mutant: the instruction pointer is advanced before the store
StoreAndAdvanceEarly(vm, p, value, n) ==
    LET s == Store(p, vm.memory, value)
    IN  IF s.panic # NoPanic THEN Fail([vm EXCEPT !.ip = @ + n], s.panic)
        ELSE [vm EXCEPT !.memory = s.val, !.ip = @ + n]

\* p.store(&mut vm.memory, value); vm.ip += n
StoreAndAdvance(vm, p, value, n) ==
    LET s == Store(p, vm.memory, value)
    IN  IF s.panic # NoPanic THEN Fail(vm, s.panic)
        ELSE [vm EXCEPT !.memory = s.val, !.ip = @ + n]

\* mutant: Add subtracts
ExecAddSubtracts(vm, p1, p2, p3) ==
    LET a == Fetch(p1, vm.memory)
        b == Fetch(p2, vm.memory)
    IN  IF a.panic # NoPanic THEN Fail(vm, a.panic)
        ELSE IF b.panic # NoPanic THEN Fail(vm, b.panic)
        ELSE StoreAndAdvance(vm, p3, a.val - b.val, 4)

\* mutant: Add advances over its three parameters only
ExecAddAdvancesThree(vm, p1, p2, p3) ==
    LET a == Fetch(p1, vm.memory)
        b == Fetch(p2, vm.memory)
    IN  IF a.panic # NoPanic THEN Fail(vm, a.panic)
        ELSE IF b.panic # NoPanic THEN Fail(vm, b.panic)
        ELSE StoreAndAdvance(vm, p3, a.val + b.val, 3)

\* Instruction::Add
ExecAdd(vm, p1, p2, p3) ==
    LET a == Fetch(p1, vm.memory)
        b == Fetch(p2, vm.memory)
    IN  IF a.panic # NoPanic THEN Fail(vm, a.panic)
        ELSE IF b.panic # NoPanic THEN Fail(vm, b.panic)
        ELSE StoreAndAdvance(vm, p3, a.val + b.val, 4)

\* mutant: the body of Add copied without changing the operator
ExecMultiplyAdds(vm, p1, p2, p3) ==
    LET a == Fetch(p1, vm.memory)
        b == Fetch(p2, vm.memory)
    IN  IF a.panic # NoPanic THEN Fail(vm, a.panic)
        ELSE IF b.panic # NoPanic THEN Fail(vm, b.panic)
        ELSE StoreAndAdvance(vm, p3, a.val + b.val, 4)

\* Instruction::Multiply
ExecMultiply(vm, p1, p2, p3) ==
    LET a == Fetch(p1, vm.memory)
        b == Fetch(p2, vm.memory)
    IN  IF a.panic # NoPanic THEN Fail(vm, a.panic)
        ELSE IF b.panic # NoPanic THEN Fail(vm, b.panic)
        ELSE StoreAndAdvance(vm, p3, a.val * b.val, 4)

\* mutant: JumpIfNotZero never jumps
ExecJumpIfNotZeroFallsThrough(vm, p1, p2) ==
    LET a == Fetch(p1, vm.memory)
    IN  IF a.panic # NoPanic THEN Fail(vm, a.panic)
        ELSE [vm EXCEPT !.ip = @ + 3]

\* Instruction::JumpIfNotZero: p2 is fetched only when the jump is taken
ExecJumpIfNotZero(vm, p1, p2) ==
    LET a == Fetch(p1, vm.memory)
        b == Fetch(p2, vm.memory)
    IN  IF a.panic # NoPanic THEN Fail(vm, a.panic)
        ELSE IF a.val # 0
        THEN IF b.panic # NoPanic THEN Fail(vm, b.panic)
             ELSE [vm EXCEPT !.ip = AsAddress(b.val)]
        ELSE [vm EXCEPT !.ip = @ + 3]

\* mutant: the body of JumpIfNotZero copied without inverting the test
ExecJumpIfZeroInverted(vm, p1, p2) ==
    LET a == Fetch(p1, vm.memory)
        b == Fetch(p2, vm.memory)
    IN  IF a.panic # NoPanic THEN Fail(vm, a.panic)
        ELSE IF a.val # 0
        THEN IF b.panic # NoPanic THEN Fail(vm, b.panic)
             ELSE [vm EXCEPT !.ip = AsAddress(b.val)]
        ELSE [vm EXCEPT !.ip = @ + 3]

\* Instruction::JumpIfZero: p2 is fetched only when the jump is taken
ExecJumpIfZero(vm, p1, p2) ==
    LET a == Fetch(p1, vm.memory)
        b == Fetch(p2, vm.memory)
    IN  IF a.panic # NoPanic THEN Fail(vm, a.panic)
        ELSE IF a.val = 0
        THEN IF b.panic # NoPanic THEN Fail(vm, b.panic)
             ELSE [vm EXCEPT !.ip = AsAddress(b.val)]
        ELSE [vm EXCEPT !.ip = @ + 3]

\* mutant: less-or-equal in place of less-than
ExecLessOrEqual(vm, p1, p2, p3) ==
    LET a == Fetch(p1, vm.memory)
        b == Fetch(p2, vm.memory)
    IN  IF a.panic # NoPanic THEN Fail(vm, a.panic)
        ELSE IF b.panic # NoPanic THEN Fail(vm, b.panic)
        ELSE IF a.val <= b.val THEN StoreAndAdvance(vm, p3, 1, 4)
        ELSE StoreAndAdvance(vm, p3, 0, 4)

\* Instruction::LessThan
ExecLessThan(vm, p1, p2, p3) ==
    LET a == Fetch(p1, vm.memory)
        b == Fetch(p2, vm.memory)
    IN  IF a.panic # NoPanic THEN Fail(vm, a.panic)
        ELSE IF b.panic # NoPanic THEN Fail(vm, b.panic)
        ELSE IF a.val < b.val THEN StoreAndAdvance(vm, p3, 1, 4)
        ELSE StoreAndAdvance(vm, p3, 0, 4)

\* mutant: Equals stores 1 for operands that differ
ExecEqualsNegated(vm, p1, p2, p3) ==
    LET a == Fetch(p1, vm.memory)
        b == Fetch(p2, vm.memory)
    IN  IF a.panic # NoPanic THEN Fail(vm, a.panic)
        ELSE IF b.panic # NoPanic THEN Fail(vm, b.panic)
        ELSE IF a.val # b.val THEN StoreAndAdvance(vm, p3, 1, 4)
        ELSE StoreAndAdvance(vm, p3, 0, 4)

\* Instruction::Equals
ExecEquals(vm, p1, p2, p3) ==
    LET a == Fetch(p1, vm.memory)
        b == Fetch(p2, vm.memory)
    IN  IF a.panic # NoPanic THEN Fail(vm, a.panic)
        ELSE IF b.panic # NoPanic THEN Fail(vm, b.panic)
        ELSE IF a.val = b.val THEN StoreAndAdvance(vm, p3, 1, 4)
        ELSE StoreAndAdvance(vm, p3, 0, 4)

\* mutant: the queue is used as a stack (pop_back for pop_front)
ExecInputNewest(vm, p1) ==
    IF ~(Len(vm.input) > 0) THEN Fail(vm, Panic(MsgNoInputLeft, <<>>))
    ELSE StoreAndAdvance([vm EXCEPT !.input = SubSeq(@, 1, Len(@) - 1)], p1,
                         vm.input[Len(vm.input)], 2)

\* Instruction::Input of intcode.rs: the value is popped from the queue
\* before store() is entered, so a panicking store has consumed it
ExecInput(vm, p1) ==
    IF ~(Len(vm.input) > 0) THEN Fail(vm, Panic(MsgNoInputLeft, <<>>))
    ELSE StoreAndAdvance([vm EXCEPT !.input = Tail(@)], p1, Head(vm.input), 2)

\* mutant: Output puts the value in front of the log
ExecOutputPrepends(vm, p1) ==
    LET a == Fetch(p1, vm.memory)
    IN  IF a.panic # NoPanic THEN Fail(vm, a.panic)
        ELSE [vm EXCEPT !.output = <<a.val>> \o @, !.ip = @ + 2]

\* Instruction::Output of intcode.rs
ExecOutput(vm, p1) ==
    LET a == Fetch(p1, vm.memory)
    IN  IF a.panic # NoPanic THEN Fail(vm, a.panic)
        ELSE [vm EXCEPT !.output = Append(@, a.val), !.ip = @ + 2]

\* mutant: Halt advances the instruction pointer like every other instruction
ExecDoneAdvances(vm) == [vm EXCEPT !.done = TRUE, !.ip = @ + 1]

\* Instruction::Done of intcode.rs
ExecDone(vm) == [vm EXCEPT !.done = TRUE]

\* Instruction::execute of intcode.rs
Execute(i, vm) ==
    CASE i.op = "Add" -> ExecAdd(vm, i.p[1], i.p[2], i.p[3])
      [] i.op = "Multiply" -> ExecMultiply(vm, i.p[1], i.p[2], i.p[3])
      [] i.op = "Input" -> ExecInput(vm, i.p[1])
      [] i.op = "Output" -> ExecOutput(vm, i.p[1])
      [] i.op = "JumpIfNotZero" -> ExecJumpIfNotZero(vm, i.p[1], i.p[2])
      [] i.op = "JumpIfZero" -> ExecJumpIfZero(vm, i.p[1], i.p[2])
      [] i.op = "LessThan" -> ExecLessThan(vm, i.p[1], i.p[2], i.p[3])
      [] i.op = "Equals" -> ExecEquals(vm, i.p[1], i.p[2], i.p[3])
      [] i.op = "Done" -> ExecDone(vm)

\* Decode at the instruction pointer: Instruction::parse(get_slice(ip, 4))
Decode(memory, ip, checks) ==
    LET w == MemGetSlice(memory, ip, 4, checks)
    IN  IF w.panic # NoPanic THEN [op |-> "Unknown", p |-> <<>>, panic |-> w.panic]
        ELSE InstrParse(w.val)

\* Vm::step of intcode.rs
VmStep(vm, checks) ==
    LET i == Decode(vm.memory, vm.ip, checks)
    IN  IF i.panic # NoPanic THEN Fail(vm, i.panic) ELSE Execute(i, vm)

\* the value an Input instruction at ip left in its target cell
StoredByInput(before, after) == after.memory[before.memory[before.ip + 2] + 1]

\* ---------------------------------------------------- channel based VM
\* capacity of the channel Vm::output creates: sync::channel(1)
ChannelCap == 1

\* Option::None for Vm.input and Vm.output
NoStream == [some |-> FALSE, items |-> <<>>, chan |-> 0]

NoSender == [some |-> FALSE, chan |-> 0]

\* a stream that yields `items` and then what channel `chan` delivers
\* (chan = 0: nothing more): stream::from_iter(items), or
\* stream::once(phase).chain(receiver)
Stream(items, chan) == [some |-> TRUE, items |-> items, chan |-> chan]

Sender(chan) == [some |-> TRUE, chan |-> chan]

\* a channel: the buffered values and the live Sender and Receiver handles
NewChannel == [buf |-> <<>>, senders |-> 1, receivers |-> 1]

\* mutant: a value received from the channel stays in the channel
StreamNextPeeks(in, chans) ==
    IF in.items # <<>>
    THEN [state |-> "item", val |-> Head(in.items),
          input |-> [in EXCEPT !.items = Tail(@)], chans |-> chans]
    ELSE IF in.chan = 0
    THEN [state |-> "end", val |-> 0, input |-> in, chans |-> chans]
    ELSE IF chans[in.chan].buf # <<>>
    THEN [state |-> "item", val |-> Head(chans[in.chan].buf), input |-> in,
          chans |-> chans]
    ELSE IF chans[in.chan].senders = 0
    THEN [state |-> "end", val |-> 0, input |-> in, chans |-> chans]
    ELSE [state |-> "pending", val |-> 0, input |-> in, chans |-> chans]

\* mutant: a channel whose Sender was dropped stays pending
StreamNextNeverEnds(in, chans) ==
    IF in.items # <<>>
    THEN [state |-> "item", val |-> Head(in.items),
          input |-> [in EXCEPT !.items = Tail(@)], chans |-> chans]
    ELSE IF in.chan = 0
    THEN [state |-> "end", val |-> 0, input |-> in, chans |-> chans]
    ELSE IF chans[in.chan].buf # <<>>
    THEN [state |-> "item", val |-> Head(chans[in.chan].buf), input |-> in,
          chans |-> [chans EXCEPT ![in.chan].buf = Tail(@)]]
    ELSE [state |-> "pending", val |-> 0, input |-> in, chans |-> chans]

\* rx.next() polled once: [state, val, input, chans]; "item" yields val,
\* "end" is the end of the stream, "pending" suspends the task
StreamNext(in, chans) ==
    IF in.items # <<>>
    THEN [state |-> "item", val |-> Head(in.items),
          input |-> [in EXCEPT !.items = Tail(@)], chans |-> chans]
    ELSE IF in.chan = 0
    THEN [state |-> "end", val |-> 0, input |-> in, chans |-> chans]
    ELSE IF chans[in.chan].buf # <<>>
    THEN [state |-> "item", val |-> Head(chans[in.chan].buf), input |-> in,
          chans |-> [chans EXCEPT ![in.chan].buf = Tail(@)]]
    ELSE IF chans[in.chan].senders = 0
    THEN [state |-> "end", val |-> 0, input |-> in, chans |-> chans]
    ELSE [state |-> "pending", val |-> 0, input |-> in, chans |-> chans]

\* the result of a step of the channel based VM: the VM, the channels and
\* whether the step is suspended in an await (nothing has changed then)
Stepped3(vm, chans) == [vm |-> vm, chans |-> chans, blocked |-> FALSE]

Suspended(vm, chans) == [vm |-> vm, chans |-> chans, blocked |-> TRUE]

\* mutant: Input makes up the value 0 when no stream is attached
AExecInputDefaultsZero(vm, chans, p1) ==
    IF ~vm.input.some THEN Stepped3(StoreAndAdvance(vm, p1, 0, 2), chans)
    ELSE LET n == StreamNext(vm.input, chans)
         IN  CASE n.state = "pending" -> Suspended(vm, chans)
               [] n.state = "end" ->
                    Stepped3(Fail(vm, Panic(MsgInputClosed, <<>>)), chans)
               [] n.state = "item" ->
                    Stepped3(StoreAndAdvance([vm EXCEPT !.input = n.input], p1,
                                             n.val, 2),
                             n.chans)

\* mutant: a task suspended in rx.next() is not woken by the send
AExecInputNotWoken(vm, chans, p1) ==
    IF ~vm.input.some THEN Stepped3(Fail(vm, Panic(MsgNoInputChannel, <<>>)), chans)
    ELSE LET n == StreamNext(vm.input, chans)
         IN  CASE n.state = "pending" -> Suspended(vm, chans)
               [] n.state = "end" ->
                    Stepped3(Fail(vm, Panic(MsgInputClosed, <<>>)), chans)
               [] n.state = "item" ->
                    IF vm.input.items = <<>> THEN Suspended(vm, chans)
                    ELSE Stepped3(StoreAndAdvance([vm EXCEPT !.input = n.input],
                                                  p1, n.val, 2),
                                  n.chans)

\* Instruction::Input of vm.rs
AExecInput(vm, chans, p1) ==
    IF ~vm.input.some THEN Stepped3(Fail(vm, Panic(MsgNoInputChannel, <<>>)), chans)
    ELSE LET n == StreamNext(vm.input, chans)
         IN  CASE n.state = "pending" -> Suspended(vm, chans)
               [] n.state = "end" ->
                    Stepped3(Fail(vm, Panic(MsgInputClosed, <<>>)), chans)
               [] n.state = "item" ->
                    Stepped3(StoreAndAdvance([vm EXCEPT !.input = n.input], p1,
                                             n.val, 2),
                             n.chans)

\* mutant: send() never waits, the channel takes any number of values
AExecOutputUnbounded(vm, chans, p1) ==
    IF ~vm.output.some
    THEN Stepped3(Fail(vm, Panic(MsgNoOutputChannel, <<>>)), chans)
    ELSE LET a == Fetch(p1, vm.memory)
         IN  IF a.panic # NoPanic THEN Stepped3(Fail(vm, a.panic), chans)
             ELSE Stepped3([vm EXCEPT !.ip = @ + 2],
                           [chans EXCEPT ![vm.output.chan].buf = Append(@, a.val)])

\* mutant: a value sent to a full channel is dropped (try_send for send)
AExecOutputDropsWhenFull(vm, chans, p1) ==
    IF ~vm.output.some
    THEN Stepped3(Fail(vm, Panic(MsgNoOutputChannel, <<>>)), chans)
    ELSE LET a == Fetch(p1, vm.memory)
             c == vm.output.chan
         IN  IF a.panic # NoPanic THEN Stepped3(Fail(vm, a.panic), chans)
             ELSE IF Len(chans[c].buf) < ChannelCap
             THEN Stepped3([vm EXCEPT !.ip = @ + 2],
                           [chans EXCEPT ![c].buf = Append(@, a.val)])
             ELSE Stepped3([vm EXCEPT !.ip = @ + 2], chans)

\* Instruction::Output of vm.rs: send() completes once the value is in the
\* channel; it waits while the channel is full
AExecOutput(vm, chans, p1) ==
    IF ~vm.output.some
    THEN Stepped3(Fail(vm, Panic(MsgNoOutputChannel, <<>>)), chans)
    ELSE LET a == Fetch(p1, vm.memory)
             c == vm.output.chan
         IN  IF a.panic # NoPanic THEN Stepped3(Fail(vm, a.panic), chans)
             ELSE IF Len(chans[c].buf) < ChannelCap
             THEN Stepped3([vm EXCEPT !.ip = @ + 2],
                           [chans EXCEPT ![c].buf = Append(@, a.val)])
             ELSE Suspended(vm, chans)

\* dropping the stream drops the Receiver chained into it
DropStream(in, chans) ==
    IF in.some /\ in.chan # 0
    THEN [chans EXCEPT ![in.chan].receivers = @ - 1] ELSE chans

DropSender(out, chans) ==
    IF out.some THEN [chans EXCEPT ![out.chan].senders = @ - 1] ELSE chans

\* mutant: Halt keeps the Sender, the output channel stays open
AExecDoneKeepsSender(vm, chans) ==
    Stepped3([vm EXCEPT !.input = NoStream, !.done = TRUE],
             DropStream(vm.input, chans))

\* Instruction::Done of vm.rs
AExecDone(vm, chans) ==
    Stepped3([vm EXCEPT !.input = NoStream, !.output = NoSender, !.done = TRUE],
             DropSender(vm.output, DropStream(vm.input, chans)))

\* Instruction::execute of vm.rs
AExecute(i, vm, chans) ==
    CASE i.op = "Input" -> AExecInput(vm, chans, i.p[1])
      [] i.op = "Output" -> AExecOutput(vm, chans, i.p[1])
      [] i.op = "Done" -> AExecDone(vm, chans)
      [] OTHER -> Stepped3(Execute(i, vm), chans)

\* Vm::step of vm.rs
AVmStep(vm, chans, checks) ==
    LET i == Decode(vm.memory, vm.ip, checks)
    IN  IF i.panic # NoPanic THEN Stepped3(Fail(vm, i.panic), chans)
        ELSE AExecute(i, vm, chans)

\* ------------------------------------------- IntCodeVm of bin/day02.rs
\* The first VM of the repository: cells are u32, an instruction is its
\* whole first cell (1, 2 or 99) and every parameter is an address.  The
\* program overlaid with the HashMap of written cells is kept as one
\* sequence.
MsgAssertAddr == "assertion failed: addr < self.program.len()"

MsgUnknownOpcodeAt == "Unknown opcode {} at address {}"

\* IntCodeVm::get
Day02Get(m, addr) ==
    IF addr < Len(m) THEN [panic |-> NoPanic, val |-> m[addr + 1]]
    ELSE [panic |-> Panic(MsgAssertAddr, <<>>), val |-> 0]

\* IntCodeVm::set
Day02Set(m, addr, value) ==
    IF addr < Len(m) THEN [panic |-> NoPanic, val |-> [m EXCEPT ![addr + 1] = value]]
    ELSE [panic |-> Panic(MsgAssertAddr, <<>>), val |-> m]

\* the panic of the first result of rs that has one
FirstPanic(rs) ==
    IF \E k \in 1..Len(rs) : rs[k].panic # NoPanic
    THEN rs[CHOOSE k \in 1..Len(rs) :
                /\ rs[k].panic # NoPanic
                /\ \A j \in 1..(k - 1) : rs[j].panic = NoPanic].panic
    ELSE NoPanic

\* the arms of opcode 1 and 2 of IntCodeVm::step; plus is TRUE for opcode 1
Day02Arith(vm, plus) ==
    LET m == vm.memory
        p1 == Day02Get(m, vm.ip + 1)
        p2 == Day02Get(m, vm.ip + 2)
        p3 == Day02Get(m, vm.ip + 3)
        a == Day02Get(m, p1.val)
        b == Day02Get(m, p2.val)
        w == Day02Set(m, p3.val, IF plus THEN a.val + b.val ELSE a.val * b.val)
        e == FirstPanic(<<p1, p2, p3, a, b, w>>)
    IN  IF e # NoPanic THEN Fail(vm, e)
        ELSE [vm EXCEPT !.memory = w.val, !.ip = @ + 4]

\* IntCodeVm::step
Day02VmStep(vm) ==
    LET c == Day02Get(vm.memory, vm.ip)
    IN  IF c.panic # NoPanic THEN Fail(vm, c.panic)
        ELSE IF c.val = 1 THEN Day02Arith(vm, TRUE)
        ELSE IF c.val = 2 THEN Day02Arith(vm, FALSE)
        ELSE IF c.val = 99 THEN [vm EXCEPT !.done = TRUE]
        ELSE Fail(vm, Panic(MsgUnknownOpcodeAt, <<c.val, vm.ip>>))

\* ------------------------------------------------------------------ state
VARIABLES
    kind,       \* the VM of this run: "queue" (intcode.rs), "channel"
                \* (intcode/vm.rs) or "day02" (bin/day02.rs)
    memory,     \* Vm.memory
    ip,         \* Vm.ip
    input,      \* Vm.input, the queue of values not yet consumed
    output,     \* Vm.output, the output log
    done,       \* Vm.done
    panic,      \* the panic that ended the program, or NoPanic
    pc,         \* "idle": between calls; "run": inside the loop of run()
    steps,      \* number of step() calls so far
    program,    \* history: the program the VM was created with
    supplied,   \* history: the values of the latest input() call
    consumed,   \* history: the values Input instructions stored since then
    emitted,    \* history: the values Output instructions fetched and emitted
    last,       \* history: the latest step() call, the instruction it decoded,
                \* the VM and channels before it and the channels after it
    vms,        \* the channel based VMs
    chans,      \* the channels created by Vm::output
    task,       \* per VM, its run() future: "idle", "running", "finished"
    collector,  \* rx.collect() of run_and_collect: the channel it drains
    collected,  \* the Vec rx.collect() has gathered so far
    phases,     \* the phases the amplifier chain was built for
    reads,      \* history: per amplifier, the values its input stream yielded
    emits,      \* history: per amplifier, the values it sent
    runs,       \* the (phases, thrust) pairs permutate has yielded, in order
    res         \* the accumulator of the fold of permutate_max

qvars == <<memory, ip, input, output, done, panic, pc>>

hvars == <<steps, program, supplied, consumed, emitted, last>>

avars == <<vms, chans, task, collector, collected>>

pvars == <<phases, reads, emits, runs, res>>

vars == <<kind, qvars, hvars, avars, pvars>>

\* the VM as a record
Self == [memory |-> memory, ip |-> ip, input |-> input, output |-> output,
         done |-> done, panic |-> panic]

\* ------------------------------------------------------- programs explored
\* mode digits of the instructions with three, two and one parameter
Modes3 == {0, 1, 10, 11, 100, 2, 20, 200}

Modes2 == {0, 1, 10, 11, 2, 20}

Modes1 == {0, 1, 2}

FirstCells ==
    {m * 100 + o : m \in Modes3, o \in {1, 2, 7, 8}}
    \cup {m * 100 + o : m \in Modes2, o \in {5, 6}}
    \cup {m * 100 + o : m \in Modes1, o \in {3, 4}}
    \cup {99, 199, 0, 9, 100, -1, -99, -101}

Cells == -1 .. MaxCell

\* one instruction with every operand combination, then Halt
Generated == {<<c, x, y, z, 99>> : c \in FirstCells, x \in Cells, y \in Cells, z \in Cells}

\* operands at and past the end of a five cell memory
Boundary ==
    { <<1, 5, 0, 0, 99>>, <<2, 0, 6, 0, 99>>, <<1, 0, 0, 5, 99>>, <<4, 5, 4, 3, 99>>,
      <<3, 5, 3, 0, 99>>, <<1105, 1, 5, 0, 99>>, <<1106, 0, 7, 0, 99>>,
      <<5, 0, 5, 0, 99>>, <<7, 5, 0, 0, 99>>, <<8, 0, 0, 5, 99>> }

\* programs that read and write more than once
IoPrograms ==
    { <<3, 0, 3, 1, 99>>, <<3, 0, 4, 0, 99>>, <<3, 1, 3, 0, 4, 0, 4, 1, 99>>,
      <<4, 0, 104, -5, 4, 2, 99>>, <<104, 1, 3, 0, 104, 2, 99>>,
      <<3, 2, 0, 0, 99>>, <<3, 5, 3, 4, 0, 99>> }

\* the programs of tests day02_example_1 .. day02_example_4
Day02Examples ==
    { <<1, 0, 0, 0, 99>>, <<2, 3, 0, 3, 99>>, <<2, 4, 4, 5, 99, 0>>,
      <<1, 1, 1, 4, 99, 5, 6, 0, 99>> }

\* the programs of tests day05_position_mode_equals and
\* day05_immediate_mode_equals
Day05Equals == { <<3, 9, 8, 9, 10, 9, 4, 9, 99, -1, 8>>, <<3, 3, 1108, -1, 8, 3, 4, 3, 99>> }

\* the programs of tests day05_position_mode_less_than and
\* day05_immediate_mode_less_than
Day05LessThan == { <<3, 9, 7, 9, 10, 9, 4, 9, 99, -1, 8>>, <<3, 3, 1107, -1, 8, 3, 4, 3, 99>> }

\* the programs of tests day05_position_mode_jump and
\* day05_immediate_mode_jump
Day05Jumps ==
    { <<3, 12, 6, 12, 15, 1, 13, 14, 13, 4, 13, 99, -1, 0, 1, 9>>,
      <<3, 3, 1105, -1, 9, 1101, 0, 0, 12, 4, 12, 99, 1>> }

\* the program of test day05_large_example
Day05Large ==
    <<3, 21, 1008, 21, 8, 20, 1005, 20, 22, 107, 8, 21, 20, 1006, 20, 31, 1106, 0, 36,
      98, 0, 0, 1002, 21, 125, 20, 4, 20, 1105, 1, 46, 104, 999, 1105, 1, 46, 1101,
      1000, 1, 20, 4, 20, 1105, 1, 46, 98, 99>>

TestPrograms == Day05Equals \cup Day05LessThan \cup Day05Jumps \cup {Day05Large}

\* the program noun() and verb() are explored on: the example of day 2
NounPrograms == {<<1, 9, 10, 3, 2, 3, 11, 0, 99, 30, 40, 50>>}

\* the values handed to noun() and verb()
NounValues == {-1, 0, 12, 99, 100}

Programs ==
    Generated \cup Boundary \cup IoPrograms \cup Day02Examples \cup TestPrograms
    \cup NounPrograms

\* the input sequences handed to input(): 7, 8, ...
InputSeqs == {[i \in 1..n |-> 6 + i] : n \in 0..MaxInput}

\* the tests of day 5 hand their program one value
TestInputs == {<<x>> : x \in -1..MaxX}

\* the input sequences explored for program p
InputsFor(p) == IF p \in TestPrograms THEN TestInputs ELSE InputSeqs

\* the number of step() calls explored for program p
StepLimit(p) == IF p \in TestPrograms THEN MaxTestSteps ELSE MaxSteps

\* ------------------------------------------------- queue based VM, actions
NewVm(p) == [memory |-> p, ip |-> 0, input |-> <<>>, output |-> <<>>,
             done |-> FALSE, panic |-> NoPanic]

NoInstr == [op |-> "", p |-> <<>>, panic |-> NoPanic]

NoCollector == [state |-> "none", chan |-> 0]

\* Option<(Vec<Value>, Value)>
NoResult == [some |-> FALSE, phases |-> <<>>, thrust |-> 0]

SomeResult(ph, thrust) == [some |-> TRUE, phases |-> ph, thrust |-> thrust]

\* no amplifier chain is part of the run
NoChain ==
    /\ phases = <<>>
    /\ reads = <<>>
    /\ emits = <<>>
    /\ runs = <<>>
    /\ res = NoResult

\* Vm::new(program)
InitQueue ==
    /\ kind = "queue"
    /\ program \in Programs
    /\ memory = program
    /\ ip = 0
    /\ input = <<>>
    /\ output = <<>>
    /\ done = FALSE
    /\ panic = NoPanic
    /\ pc = "idle"
    /\ steps = 0
    /\ supplied = <<>>
    /\ consumed = <<>>
    /\ emitted = <<>>
    /\ last = [call |-> "new", who |-> 1, instr |-> NoInstr, vm |-> NewVm(program),
               chans |-> <<>>, after |-> <<>>]
    /\ vms = <<>>
    /\ chans = <<>>
    /\ task = <<>>
    /\ collector = NoCollector
    /\ collected = <<>>
    /\ NoChain

\* mutant: step() executes the instruction the program held at ip when it
\* was loaded
DoStepCached(call, checks) ==
    LET i == Decode(program, ip, checks)
        r == IF i.panic # NoPanic THEN Fail(Self, i.panic) ELSE Execute(i, Self)
    IN  /\ memory' = r.memory
        /\ ip' = r.ip
        /\ input' = r.input
        /\ output' = r.output
        /\ done' = r.done
        /\ panic' = r.panic
        /\ steps' = steps + 1
        /\ consumed' = IF i.op = "Input" /\ r.panic = NoPanic
                       THEN Append(consumed, StoredByInput(Self, r)) ELSE consumed
        /\ emitted' = IF i.op = "Output" /\ r.panic = NoPanic
                      THEN Append(emitted, Fetch(i.p[1], memory).val) ELSE emitted
        /\ last' = [call |-> call, who |-> 1, instr |-> i, vm |-> Self,
                    chans |-> <<>>, after |-> <<>>]
        /\ UNCHANGED <<program, supplied>>

\* the effect of one step() call on the variables
DoStep(call, checks) ==
    LET r == VmStep(Self, checks)
        i == Decode(memory, ip, checks)
    IN  /\ memory' = r.memory
        /\ ip' = r.ip
        /\ input' = r.input
        /\ output' = r.output
        /\ done' = r.done
        /\ panic' = r.panic
        /\ steps' = steps + 1
        /\ consumed' = IF i.op = "Input" /\ r.panic = NoPanic
                       THEN Append(consumed, StoredByInput(Self, r)) ELSE consumed
        /\ emitted' = IF i.op = "Output" /\ r.panic = NoPanic
                      THEN Append(emitted, Fetch(i.p[1], memory).val) ELSE emitted
        /\ last' = [call |-> call, who |-> 1, instr |-> i, vm |-> Self,
                    chans |-> <<>>, after |-> <<>>]
        /\ UNCHANGED <<program, supplied>>

\* the panic of the assert! of Vm::noun (addr 1) and of Vm::verb (addr 2)
MsgAssertLimit(addr) ==
    IF addr = 1 THEN "assertion failed: noun <= 99"
    ELSE "assertion failed: verb <= 99"

\* Vm::noun (addr 1) and Vm::verb (addr 2): assert!(value <= 99), then
\* memory.set(addr, value)
SetCell(vm, addr, value) ==
    IF ~(value <= 99) THEN Fail(vm, Panic(MsgAssertLimit(addr), <<>>))
    ELSE LET s == MemSet(vm.memory, addr, value)
         IN  IF s.panic # NoPanic THEN Fail(vm, s.panic)
             ELSE [vm EXCEPT !.memory = s.val]

\* Vm::noun(value), called on a new VM
Noun ==
    /\ kind = "queue"
    /\ program \in NounPrograms
    /\ last.call = "new"
    /\ \E value \in NounValues :
        /\ memory' = SetCell(Self, 1, value).memory
        /\ panic' = SetCell(Self, 1, value).panic
        /\ last' = [call |-> "noun", who |-> 1, instr |-> NoInstr, vm |-> Self,
                    chans |-> <<>>, after |-> <<>>, value |-> value]
    /\ UNCHANGED <<kind, pvars, ip, input, output, done, pc, steps, program,
                   supplied, consumed, emitted, avars>>

\* Vm::verb(value), called on a new VM or after noun()
Verb ==
    /\ kind = "queue"
    /\ program \in NounPrograms
    /\ last.call \in {"new", "noun"}
    /\ panic = NoPanic
    /\ \E value \in NounValues :
        /\ memory' = SetCell(Self, 2, value).memory
        /\ panic' = SetCell(Self, 2, value).panic
        /\ last' = [call |-> "verb", who |-> 1, instr |-> NoInstr, vm |-> Self,
                    chans |-> <<>>, after |-> <<>>, value |-> value]
    /\ UNCHANGED <<kind, pvars, ip, input, output, done, pc, steps, program,
                   supplied, consumed, emitted, avars>>

\* Vm::input(values); the callers configure a VM before they step or run it
\* (vm.input(&[5]).run())
SetInput ==
    /\ kind = "queue"
    /\ pc = "idle"
    /\ steps = 0
    /\ \E values \in InputsFor(program) :
        /\ input' = values
        /\ supplied' = values
        /\ consumed' = <<>>
    /\ UNCHANGED <<kind, pvars, memory, ip, output, done, panic, pc, steps, program,
                   emitted, last, avars>>

\* Vm::step called by the owner of the VM
Step ==
    /\ kind = "queue"
    /\ pc = "idle"
    /\ panic = NoPanic
    /\ steps < StepLimit(program)
    /\ \E checks \in BOOLEAN : DoStep("step", checks)
    /\ UNCHANGED <<kind, pvars, pc, avars>>

\* Vm::run is called
Run ==
    /\ kind = "queue"
    /\ pc = "idle"
    /\ panic = NoPanic
    /\ pc' = "run"
    /\ UNCHANGED <<kind, pvars, memory, ip, input, output, done, panic, hvars, avars>>

\* Vm::run, one pass of `while !self.done { self.step() }`
RunStep ==
    /\ kind = "queue"
    /\ pc = "run"
    /\ panic = NoPanic
    /\ ~done
    /\ steps < StepLimit(program)
    /\ \E checks \in BOOLEAN : DoStep("run-step", checks)
    /\ UNCHANGED <<kind, pvars, pc, avars>>

\* Vm::run leaves its loop and returns
RunReturn ==
    /\ kind = "queue"
    /\ pc = "run"
    /\ panic = NoPanic
    /\ done
    /\ pc' = "idle"
    /\ UNCHANGED <<kind, pvars, memory, ip, input, output, done, panic, hvars, avars>>

\* ----------------------------------------------- channel based VM, actions
\* programs run on the channel based VM: input and output instructions in
\* every mode, a jump, an addition, and the test programs
AsyncFirstCells ==
    {m * 100 + o : m \in Modes1, o \in {3, 4}} \cup {99, 0, 1101, 1105}

AsyncPrograms ==
    {<<c, x, y, z, 99>> : c \in AsyncFirstCells, x \in Cells, y \in Cells, z \in Cells}
    \cup IoPrograms \cup Day02Examples \cup TestPrograms

NewAsyncVm(p) == [memory |-> p, ip |-> 0, input |-> NoStream, output |-> NoSender,
                  done |-> FALSE, panic |-> NoPanic]

\* some VM has panicked: the panic unwinds through the joined futures
Aborted == \E i \in 1..Len(vms) : vms[i].panic # NoPanic

\* Vm::new(program) of vm.rs
InitChannel ==
    /\ kind = "channel"
    /\ program \in AsyncPrograms
    /\ vms = <<NewAsyncVm(program)>>
    /\ chans = <<>>
    /\ task = <<"idle">>
    /\ collector = NoCollector
    /\ collected = <<>>
    /\ NoChain
    /\ memory = <<>>
    /\ ip = 0
    /\ input = <<>>
    /\ output = <<>>
    /\ done = FALSE
    /\ panic = NoPanic
    /\ pc = "idle"
    /\ steps = 0
    /\ supplied = <<>>
    /\ consumed = <<>>
    /\ emitted = <<>>
    /\ last = [call |-> "new", who |-> 1, instr |-> NoInstr,
               vm |-> NewAsyncVm(program), chans |-> <<>>, after |-> <<>>]

\* Vm::input(stream) of vm.rs with stream::from_iter(values), before the VM
\* is run (day05.rs, tests of intcode/mod.rs)
AInput ==
    /\ kind = "channel"
    /\ task[1] = "idle"
    /\ \E values \in InputsFor(program) :
        /\ vms' = [vms EXCEPT ![1].input = Stream(values, 0)]
        /\ chans' = DropStream(vms[1].input, chans)
        /\ supplied' = values
        /\ consumed' = <<>>
    /\ UNCHANGED <<kind, pvars, qvars, steps, program, emitted, last, task, collector,
                   collected>>

\* Vm::run of vm.rs is called and polled
ARun ==
    /\ kind = "channel"
    /\ \E i \in 1..Len(vms) :
        /\ task[i] = "idle"
        /\ task' = [task EXCEPT ![i] = "running"]
    /\ UNCHANGED <<kind, pvars, qvars, hvars, vms, chans, collector, collected>>

\* Vm::run_and_collect: Vm::output creates the channel, then run() is joined
\* with rx.collect()
ARunAndCollect ==
    /\ kind = "channel"
    /\ task[1] = "idle"
    /\ collector.state = "none"
    /\ IF vms[1].output.some
       THEN /\ vms' = [vms EXCEPT ![1].panic = Panic(MsgOutputAlreadySet, <<>>)]
            /\ UNCHANGED <<chans, task, collector>>
       ELSE /\ chans' = Append(chans, NewChannel)
            /\ vms' = [vms EXCEPT ![1].output = Sender(Len(chans) + 1)]
            /\ task' = [task EXCEPT ![1] = "running"]
            /\ collector' = [state |-> "collecting", chan |-> Len(chans) + 1]
    /\ UNCHANGED <<kind, pvars, qvars, hvars, collected>>

\* Vm::run of vm.rs, one pass of `while !self.done { self.step().await }`;
\* a step suspended in an await is not taken
AStep ==
    /\ kind = "channel"
    /\ ~Aborted
    /\ steps < StepLimit(program)
    /\ \E i \in 1..Len(vms), checks \in BOOLEAN :
        LET r == AVmStep(vms[i], chans, checks)
            d == Decode(vms[i].memory, vms[i].ip, checks)
        IN  /\ task[i] = "running"
            /\ ~vms[i].done
            /\ ~r.blocked
            /\ vms' = [vms EXCEPT ![i] = r.vm]
            /\ chans' = r.chans
            /\ consumed' = IF d.op = "Input" /\ r.vm.panic = NoPanic
                           THEN Append(consumed, StoredByInput(vms[i], r.vm))
                           ELSE consumed
            /\ emitted' = IF d.op = "Output" /\ r.vm.panic = NoPanic
                          THEN Append(emitted, Fetch(d.p[1], vms[i].memory).val)
                          ELSE emitted
            /\ last' = [call |-> "step", who |-> i, instr |-> d, vm |-> vms[i],
                        chans |-> chans, after |-> r.chans]
    /\ steps' = steps + 1
    /\ UNCHANGED <<kind, pvars, qvars, program, supplied, task, collector, collected>>

\* Vm::run of vm.rs leaves its loop: the future completes
AFinish ==
    /\ kind = "channel"
    /\ ~Aborted
    /\ \E i \in 1..Len(vms) :
        /\ task[i] = "running"
        /\ vms[i].done
        /\ task' = [task EXCEPT ![i] = "finished"]
    /\ UNCHANGED <<kind, pvars, qvars, hvars, vms, chans, collector, collected>>

\* rx.collect() receives the value waiting in the channel
ACollect ==
    /\ kind = "channel"
    /\ ~Aborted
    /\ collector.state = "collecting"
    /\ chans[collector.chan].buf # <<>>
    /\ collected' = Append(collected, Head(chans[collector.chan].buf))
    /\ chans' = [chans EXCEPT ![collector.chan].buf = Tail(@)]
    /\ UNCHANGED <<kind, pvars, qvars, hvars, vms, task, collector>>

\* rx.collect() finds the channel empty with every Sender dropped: the
\* stream has ended and the Vec is complete
ACollectEnd ==
    /\ kind = "channel"
    /\ ~Aborted
    /\ collector.state = "collecting"
    /\ chans[collector.chan].buf = <<>>
    /\ chans[collector.chan].senders = 0
    /\ collector' = [collector EXCEPT !.state = "done"]
    /\ chans' = [chans EXCEPT ![collector.chan].receivers = @ - 1]
    /\ UNCHANGED <<kind, pvars, qvars, hvars, vms, task, collected>>

\* ------------------------------------------------ IntCodeVm, actions
Day02Programs ==
    {<<c, x, y, z, 99>> : c \in {1, 2, 99, 0, 3, 8, 100, 101, 199},
                          x \in 0..MaxCell, y \in 0..MaxCell, z \in 0..MaxCell}
    \cup {<<1, 0, 0, 5, 99>>, <<2, 5, 0, 0, 99>>, <<1, 0, 0, 4, 1>>}
    \cup Day02Examples

\* IntCodeVm::new(program)
InitDay02 ==
    /\ kind = "day02"
    /\ program \in Day02Programs
    /\ memory = program
    /\ ip = 0
    /\ input = <<>>
    /\ output = <<>>
    /\ done = FALSE
    /\ panic = NoPanic
    /\ pc = "run"
    /\ steps = 0
    /\ supplied = <<>>
    /\ consumed = <<>>
    /\ emitted = <<>>
    /\ last = [call |-> "new", who |-> 1, instr |-> NoInstr, vm |-> NewVm(program),
               chans |-> <<>>, after |-> <<>>]
    /\ vms = <<>>
    /\ chans = <<>>
    /\ task = <<>>
    /\ collector = NoCollector
    /\ collected = <<>>
    /\ NoChain

\* IntCodeVm::run, one pass of `while !self.done { self.step() }`
Day02RunStep ==
    /\ kind = "day02"
    /\ panic = NoPanic
    /\ ~done
    /\ steps < MaxSteps
    /\ LET r == Day02VmStep(Self)
       IN  /\ memory' = r.memory
           /\ ip' = r.ip
           /\ done' = r.done
           /\ panic' = r.panic
    /\ steps' = steps + 1
    /\ last' = [call |-> "day02-step", who |-> 1, instr |-> NoInstr, vm |-> Self,
                chans |-> <<>>, after |-> <<>>]
    /\ UNCHANGED <<kind, pvars, input, output, pc, program, supplied, consumed, emitted,
                   avars>>

\* --------------------------------------------------- Memory, actions
\* The calls of Memory applied to memories of up to MaxMem cells, at the
\* addresses inside, at the length, and at the largest address.
NoChannels ==
    /\ vms = <<>>
    /\ chans = <<>>
    /\ task = <<>>
    /\ collector = NoCollector
    /\ collected = <<>>

NoHistory ==
    /\ steps = 0
    /\ supplied = <<>>
    /\ consumed = <<>>
    /\ emitted = <<>>

Memories == UNION {[1..n -> {0, 1}] : n \in 0..MaxMem}

MemAddrs == (0..MaxMem) \cup {UsizeMax - 1, UsizeMax}

MemLens == {0, 1, 2, 4}

\* a call of Memory as `last` records it, without the call before it
MemCall(l) == [call |-> l.call, addr |-> l.addr, len |-> l.len, value |-> l.value]

NoMemCall == [call |-> "new", addr |-> 0, len |-> 0, value |-> 0]

\* Memory::from(data)
InitMemory ==
    /\ kind = "memory"
    /\ program \in Memories
    /\ memory = program
    /\ ip = 0
    /\ input = <<>>
    /\ output = <<>>
    /\ done = FALSE
    /\ panic = NoPanic
    /\ pc = "idle"
    /\ NoHistory
    /\ NoChannels
    /\ NoChain
    /\ last = [call |-> "new", addr |-> 0, len |-> 0, value |-> 0, ret |-> 0,
               vm |-> [memory |-> program], prev |-> NoMemCall]

\* memory.get(addr)
MemoryGet ==
    /\ kind = "memory"
    /\ panic = NoPanic
    /\ \E addr \in MemAddrs :
        LET r == MemGet(memory, addr)
        IN  /\ panic' = r.panic
            /\ last' = [call |-> "get", addr |-> addr, len |-> 0, value |-> 0,
                        ret |-> r.val, vm |-> [memory |-> memory],
                        prev |-> MemCall(last)]
    /\ UNCHANGED <<kind, pvars, memory, ip, input, output, done, pc, steps, program,
                   supplied, consumed, emitted, avars>>

\* memory.set(addr, 7)
MemorySet ==
    /\ kind = "memory"
    /\ panic = NoPanic
    /\ \E addr \in MemAddrs :
        LET r == MemSet(memory, addr, 7)
        IN  /\ panic' = r.panic
            /\ memory' = r.val
            /\ last' = [call |-> "set", addr |-> addr, len |-> 0, value |-> 7,
                        ret |-> 0, vm |-> [memory |-> memory],
                        prev |-> MemCall(last)]
    /\ UNCHANGED <<kind, pvars, ip, input, output, done, pc, steps, program,
                   supplied, consumed, emitted, avars>>

\* memory.get_slice(addr, len), built with or without overflow checks
MemoryGetSlice ==
    /\ kind = "memory"
    /\ panic = NoPanic
    /\ \E addr \in MemAddrs, len \in MemLens, checks \in BOOLEAN :
        LET r == MemGetSlice(memory, addr, len, checks)
        IN  /\ panic' = r.panic
            /\ last' = [call |-> "get_slice", addr |-> addr, len |-> len,
                        value |-> 0, ret |-> r.val, vm |-> [memory |-> memory],
                        prev |-> MemCall(last)]
    /\ UNCHANGED <<kind, pvars, memory, ip, input, output, done, pc, steps, program,
                   supplied, consumed, emitted, avars>>

\* ------------------------------------------- AmplifierChain, actions
\* the program of test part_1_example_1: reads phase and signal, sends
\* 10 * signal + phase
AmpExample1 == <<3, 15, 3, 16, 1002, 16, 10, 16, 1, 16, 15, 15, 4, 15, 99, 0, 0>>

\* reads phase and signal, sends the signal, then the phase
AmpRelay == <<3, 9, 3, 10, 4, 10, 4, 9, 99, 0, 0>>

\* with phase 0 reads the signal and sends 5 and 6; with another phase reads
\* two values and sends them in reverse order
AmpBranch ==
    <<3, 20, 1005, 20, 12, 3, 21, 104, 5, 104, 6, 99, 3, 21, 3, 22, 4, 22, 4, 21,
      0, 0, 0>>

\* reads phase and signal, sends signal + 1: every order of the phases
\* yields the same thrust
AmpCount == <<3, 11, 3, 12, 101, 1, 12, 12, 4, 12, 99, 0, 0>>

ChainPrograms == {AmpExample1, AmpRelay, AmpBranch, AmpCount}

\* an amplifier with phase 0 reads one value and emits it; with another
\* phase it reads a second value and emits that
AmpGreedy == <<3, 15, 3, 16, 1005, 15, 10, 4, 16, 99, 3, 16, 4, 16, 99, 0, 0>>

\* emits the value it reads three times
AmpFlood == <<3, 11, 3, 12, 4, 12, 4, 12, 4, 12, 99, 0, 0>>

\* emits the value it reads, then meets the unknown opcode 77
AmpEmitThenFail == <<3, 7, 3, 8, 4, 8, 77, 0, 0>>

\* reads its phase, then meets an Output with parameter mode 2
AmpBadMode == <<3, 4, 204, 0, 0>>

\* an Input whose parameter is in immediate mode
AmpStoreImmediate == <<103, 0, 99>>

\* an Input that stores beyond the end of the memory
AmpOutOfBounds == <<3, 50, 99>>

\* with phase 0 halts without reading its input or emitting, with another
\* phase reads one value and halts
AmpSilent == <<3, 9, 1005, 9, 6, 99, 3, 10, 99, 0, 0>>

\* emits its input plus 1, and executes the unknown opcode 77 instead when
\* its phase is less than its input
AmpAscending ==
    <<3, 19, 3, 20, 7, 19, 20, 21, 1005, 21, 18, 101, 1, 20, 20, 4, 20, 99, 77,
      0, 0, 0>>

\* programs run in chains of at most two amplifiers
ShortChainPrograms ==
    {AmpGreedy, AmpFlood, AmpEmitThenFail, AmpBadMode, AmpStoreImmediate,
     AmpOutOfBounds, AmpSilent, AmpAscending}

\* the sequences that hold each element of the set s once
KPermutations(s) ==
    {q \in [1..Cardinality(s) -> s] : \A a, b \in 1..Cardinality(s) : q[a] = q[b] => a = b}

ChainPhases == {<<0>>} \cup KPermutations({0, 1}) \cup KPermutations({0, 1, 2})

\* mutant: every amplifier but the first reads the output of the first
ChainNewSharedOutput(prog, ph) ==
    [vms |-> [i \in 1..Len(ph) |->
                [memory |-> prog, ip |-> 0,
                 input |-> IF i = 1 THEN Stream(<<ph[1], 0>>, 0)
                           ELSE Stream(<<ph[i]>>, 1),
                 output |-> IF i < Len(ph) THEN Sender(i) ELSE NoSender,
                 done |-> FALSE, panic |-> NoPanic]],
     chans |-> [i \in 1..(Len(ph) - 1) |-> NewChannel]]

\* mutant: the first amplifier is given the signal 0 before its phase
ChainNewSignalFirst(prog, ph) ==
    [vms |-> [i \in 1..Len(ph) |->
                [memory |-> prog, ip |-> 0,
                 input |-> IF i = 1 THEN Stream(<<0, ph[1]>>, 0)
                           ELSE Stream(<<ph[i]>>, i - 1),
                 output |-> IF i < Len(ph) THEN Sender(i) ELSE NoSender,
                 done |-> FALSE, panic |-> NoPanic]],
     chans |-> [i \in 1..(Len(ph) - 1) |-> NewChannel]]

\* AmplifierChain::new(program, phases): the VMs and the channels between
\* them; channel i leads from amplifier i to amplifier i + 1
ChainNew(prog, ph) ==
    [vms |-> [i \in 1..Len(ph) |->
                [memory |-> prog, ip |-> 0,
                 input |-> IF i = 1 THEN Stream(<<ph[1], 0>>, 0)
                           ELSE Stream(<<ph[i]>>, i - 1),
                 output |-> IF i < Len(ph) THEN Sender(i) ELSE NoSender,
                 done |-> FALSE, panic |-> NoPanic]],
     chans |-> [i \in 1..(Len(ph) - 1) |-> NewChannel]]

\* AmplifierChain::new(program, phases)
InitChain ==
    /\ kind = "chain"
    /\ \/ program \in ChainPrograms /\ phases \in ChainPhases
       \/ program \in ShortChainPrograms /\ phases \in KPermutations({0, 1})
    /\ vms = ChainNew(program, phases).vms
    /\ chans = ChainNew(program, phases).chans
    /\ task = [i \in 1..Len(phases) |-> "idle"]
    /\ collector = NoCollector
    /\ collected = <<>>
    /\ reads = [i \in 1..Len(phases) |-> <<>>]
    /\ emits = [i \in 1..Len(phases) |-> <<>>]
    /\ runs = <<>>
    /\ res = NoResult
    /\ memory = <<>>
    /\ ip = 0
    /\ input = <<>>
    /\ output = <<>>
    /\ done = FALSE
    /\ panic = NoPanic
    /\ pc = "idle"
    /\ NoHistory
    /\ last = [call |-> "new", who |-> 1, instr |-> NoInstr,
               vm |-> NewAsyncVm(program), chans |-> <<>>, after |-> <<>>]

\* AmplifierChain::run_and_collect: output() of the last amplifier creates
\* the channel collect() drains, then join_all polls every run()
ChainRunAndCollect ==
    /\ kind = "chain"
    /\ collector.state = "none"
    /\ chans' = Append(chans, NewChannel)
    /\ vms' = [vms EXCEPT ![Len(vms)].output = Sender(Len(chans) + 1)]
    /\ task' = [i \in 1..Len(vms) |-> "running"]
    /\ collector' = [state |-> "collecting", chan |-> Len(chans) + 1]
    /\ UNCHANGED <<kind, qvars, hvars, collected, phases, reads, emits, runs, res>>

\* the value the input stream of vm yields to an Input instruction d, as a
\* sequence: empty if d is none or the stream yields nothing
Yielded(d, vm, cs) ==
    IF d.panic = NoPanic /\ d.op = "Input" /\ vm.input.some
       /\ StreamNext(vm.input, cs).state = "item"
    THEN <<StreamNext(vm.input, cs).val>> ELSE <<>>

\* the value an Output instruction d of vm sends, as a sequence
Sent(d, vm, after) ==
    IF d.panic = NoPanic /\ d.op = "Output" /\ after.panic = NoPanic
    THEN <<Fetch(d.p[1], vm.memory).val>> ELSE <<>>

\* mutant: the amplifiers of a chain share one memory
AmpStepOfSharedMemory(i) ==
    /\ kind = "chain"
    /\ ~Aborted
    /\ steps < Len(vms) * MaxTestSteps
    /\ i \in 1..Len(vms)
    /\ task[i] = "running"
    /\ ~vms[i].done
    /\ \E checks \in BOOLEAN :
        \E r \in {AVmStep(vms[i], chans, checks)},
           d \in {Decode(vms[i].memory, vms[i].ip, checks)} :
            /\ ~r.blocked
            /\ vms' = [j \in 1..Len(vms) |->
                                IF j = i THEN r.vm
                                ELSE [vms[j] EXCEPT !.memory = r.vm.memory]]
            /\ chans' = r.chans
            /\ reads' = [reads EXCEPT ![i] = @ \o Yielded(d, vms[i], chans)]
            /\ emits' = [emits EXCEPT ![i] = @ \o Sent(d, vms[i], r.vm)]
            /\ last' = [call |-> "amp-step", who |-> i, instr |-> d, vm |-> vms[i],
                        chans |-> chans, after |-> r.chans]
    /\ steps' = steps + 1
    /\ UNCHANGED <<kind, qvars, program, supplied, consumed, emitted, task,
                   collector, collected, phases, runs, res>>

\* Vm::run of an amplifier, one pass of its loop, polled by join_all; a step
\* suspended in an await is not taken
AmpStepOf(i) ==
    /\ kind = "chain"
    /\ ~Aborted
    /\ steps < Len(vms) * MaxTestSteps
    /\ i \in 1..Len(vms)
    /\ task[i] = "running"
    /\ ~vms[i].done
    /\ \E checks \in BOOLEAN :
        \E r \in {AVmStep(vms[i], chans, checks)},
           d \in {Decode(vms[i].memory, vms[i].ip, checks)} :
            /\ ~r.blocked
            /\ vms' = [vms EXCEPT ![i] = r.vm]
            /\ chans' = r.chans
            /\ reads' = [reads EXCEPT ![i] = @ \o Yielded(d, vms[i], chans)]
            /\ emits' = [emits EXCEPT ![i] = @ \o Sent(d, vms[i], r.vm)]
            /\ last' = [call |-> "amp-step", who |-> i, instr |-> d, vm |-> vms[i],
                        chans |-> chans, after |-> r.chans]
    /\ steps' = steps + 1
    /\ UNCHANGED <<kind, qvars, program, supplied, consumed, emitted, task,
                   collector, collected, phases, runs, res>>

\* join_all polls the Vm::run of some amplifier
AmpStep == \E i \in 1..Len(vms) : AmpStepOf(i)

\* mutant: the loop of Vm::run is left whether or not the program has halted
AmpFinishEarly ==
    /\ kind = "chain"
    /\ ~Aborted
    /\ \E i \in 1..Len(vms) :
        /\ task[i] = "running"
        /\ task' = [task EXCEPT ![i] = "finished"]
    /\ UNCHANGED <<kind, qvars, hvars, vms, chans, collector, collected, pvars>>

\* Vm::run of an amplifier leaves its loop
AmpFinish ==
    /\ kind = "chain"
    /\ ~Aborted
    /\ \E i \in 1..Len(vms) :
        /\ task[i] = "running"
        /\ vms[i].done
        /\ task' = [task EXCEPT ![i] = "finished"]
    /\ UNCHANGED <<kind, qvars, hvars, vms, chans, collector, collected, pvars>>

\* rx.collect() of AmplifierChain::run_and_collect receives a value
ChainCollect ==
    /\ kind = "chain"
    /\ ~Aborted
    /\ collector.state = "collecting"
    /\ chans[collector.chan].buf # <<>>
    /\ collected' = Append(collected, Head(chans[collector.chan].buf))
    /\ chans' = [chans EXCEPT ![collector.chan].buf = Tail(@)]
    /\ UNCHANGED <<kind, qvars, hvars, vms, task, collector, pvars>>

\* rx.collect() finds the channel empty and the Sender dropped
ChainCollectEnd ==
    /\ kind = "chain"
    /\ ~Aborted
    /\ collector.state = "collecting"
    /\ chans[collector.chan].buf = <<>>
    /\ chans[collector.chan].senders = 0
    /\ collector' = [collector EXCEPT !.state = "done"]
    /\ chans' = [chans EXCEPT ![collector.chan].receivers = @ - 1]
    /\ UNCHANGED <<kind, qvars, hvars, vms, task, collected, pvars>>

\* ---------------------------------------------- permutate_max, actions
\* One run of a chain, evaluated amplifier after amplifier: an amplifier's
\* sends depend on the values it reads only, so they are the same in every
\* interleaving of the chain.
MsgUnexpectedResults == "Amplifier yielded {} results unexpectedly"

RECURSIVE AmpRun(_, _, _, _, _)

\* Vm::run after a pass of its loop that gave r: the loop ends if the
\* program has halted, and goes on with the output channel emptied if not
AmpLoop(vm, r, out, fuel, checks) ==
    IF r.vm.done
    THEN [vm |-> r.vm, out |-> out \o r.chans[1].buf, unread |-> vm.input.items]
    ELSE AmpRun(r.vm, [r.chans EXCEPT ![1].buf = <<>>], out \o r.chans[1].buf,
                fuel - 1, checks)

\* Vm::run of one amplifier whose input stream holds all it will ever yield
\* and whose output channel is emptied after every step: [vm, out, unread]
AmpRun(vm, cs, out, fuel, checks) ==
    IF vm.done \/ vm.panic # NoPanic \/ fuel = 0
    THEN [vm |-> vm, out |-> out, unread |-> <<>>]
    ELSE AmpLoop(vm, AVmStep(vm, cs, checks), out, fuel, checks)

\* the run of a chain whose amplifier i ran as a and whose later amplifiers
\* ran as rest: a panic of any Vm::run ends it; it hangs if amplifier i never
\* halts or left more values unread than the channel holds, the amplifier
\* before it waiting in send()
ChainJoin(i, feed, a, rest) ==
    IF a.vm.panic # NoPanic
    THEN [state |-> "panic", out |-> <<>>, panic |-> a.vm.panic]
    ELSE IF rest.state = "panic" THEN rest
    ELSE IF ~a.vm.done \/ (i > 1 /\ Min(Len(a.unread), Len(feed)) > ChannelCap)
    THEN [state |-> "hung", out |-> <<>>, panic |-> NoPanic]
    ELSE rest

RECURSIVE ChainFrom(_, _, _, _, _)

\* the amplifiers after amplifier i, which ran as a
ChainRest(prog, ph, i, feed, a, checks) ==
    ChainJoin(i, feed, a,
              IF i = Len(ph) \/ a.vm.panic # NoPanic
              THEN [state |-> "done", out |-> a.out, panic |-> NoPanic]
              ELSE ChainFrom(prog, ph, i + 1, a.out, checks))

\* amplifiers i .. Len(ph) of a chain, amplifier i fed with `feed`:
\* [state, out, panic] with state "done", "panic" (some Vm::run panicked),
\* "hung" (an amplifier waits forever)
ChainFrom(prog, ph, i, feed, checks) ==
    ChainRest(prog, ph, i, feed,
              AmpRun([NewAsyncVm(prog) EXCEPT
                         !.input = Stream(<<ph[i]>> \o feed, 0),
                         !.output = Sender(1)],
                     <<NewChannel>>, <<>>, MaxTestSteps, checks),
              checks)

\* AmplifierChain::new(program, phases).run_and_collect()
ChainEval(prog, ph, checks) == ChainFrom(prog, ph, 1, <<0>>, checks)

\* mutant: the fold keeps the smaller thrust
PermFoldKeepsLess(r, ph, thrust) ==
    IF r.some /\ thrust > r.thrust THEN r ELSE SomeResult(ph, thrust)

\* mutant: the fold keeps the accumulator when the thrusts are equal
PermFoldKeepsFirst(r, ph, thrust) ==
    IF r.some /\ thrust <= r.thrust THEN r ELSE SomeResult(ph, thrust)

\* the closure folded by permutate_max
PermFold(r, ph, thrust) ==
    IF r.some /\ thrust < r.thrust THEN r ELSE SomeResult(ph, thrust)

\* every phase order gives the same thrust but for the place of phase 2:
\* the signal is doubled by each amplifier and one is added unless the phase
\* is 2, so that two orders share each thrust
AmpShift == <<3, 19, 3, 20, 1007, 19, 2, 19, 1002, 20, 2, 20, 1, 20, 19, 20,
              4, 20, 99, 0, 0>>

\* a bounded feedback loop: reads its phase, then twice reads a value and
\* emits it plus 1, then halts
AmpFeedback ==
    <<3, 18, 3, 19, 101, 1, 19, 19, 4, 19, 1001, 20, -1, 20, 1005, 20, 2, 99,
      0, 0, 2>>

\* the phases of the feedback loop
FeedbackPhases == <<5, 6, 7, 8, 9>>

PermutatePrograms == {AmpExample1, AmpCount, AmpShift, AmpRelay}

\* the phases of the tests of day07.rs
ExamplePhases == <<0, 1, 2, 3, 4>>

\* the calls of permutate_max: the example of the tests, the program with
\* shared thrusts over three phases, every program over two
PermutateCalls ==
    {[program |-> AmpExample1, phases |-> ExamplePhases],
     [program |-> AmpShift, phases |-> <<0, 1, 2>>],
     [program |-> AmpFeedback, phases |-> FeedbackPhases]}
    \cup {[program |-> p, phases |-> <<0, 1>>] :
               p \in PermutatePrograms \cup ShortChainPrograms}

Elements(s) == {s[i] : i \in 1..Len(s)}

RECURSIVE Factorial(_)
Factorial(n) == IF n = 0 THEN 1 ELSE n * Factorial(n - 1)

RECURSIVE LexPermutation(_, _)
\* permutation number r, from 0, of the set s in lexicographic order
LexPermutation(s, r) ==
    IF s = {} THEN <<>>
    ELSE LET f == Factorial(Cardinality(s) - 1)
             x == CHOOSE y \in s : Cardinality({z \in s : z < y}) = r \div f
         IN  <<x>> \o LexPermutation(s \ {x}, r % f)

\* the permutations KPermutationIterator may yield next: its order is the
\* crate's own, so any permutation not yielded yet; ExamplePhases and
\* FeedbackPhases are enumerated in lexicographic order only
NextPermutations(ph, seen) ==
    IF ph \notin {ExamplePhases, FeedbackPhases}
    THEN KPermutations(Elements(ph)) \ seen
    ELSE IF Cardinality(seen) = Factorial(Len(ph)) THEN {}
    ELSE {LexPermutation(Elements(ph), Cardinality(seen))}

\* AmplifierChain::permutate_max(program, phases) is called
InitPermutate ==
    /\ kind = "permutate"
    /\ \E c \in PermutateCalls : program = c.program /\ phases = c.phases
    /\ runs = <<>>
    /\ res = NoResult
    /\ reads = <<>>
    /\ emits = <<>>
    /\ NoChannels
    /\ memory = program
    /\ ip = 0
    /\ input = <<>>
    /\ output = <<>>
    /\ done = FALSE
    /\ panic = NoPanic
    /\ pc = "fold"
    /\ NoHistory
    /\ last = [call |-> "new", who |-> 1, instr |-> NoInstr,
               vm |-> NewAsyncVm(program), chans |-> <<>>, after |-> <<>>]

\* mutant: run_single_result yields the last of the values collected
PermutateStepTakesLast ==
    /\ kind = "permutate"
    /\ pc = "fold"
    /\ panic = NoPanic
    /\ \E q \in NextPermutations(phases, {runs[k].phases : k \in 1..Len(runs)}),
          checks \in BOOLEAN :
        \E e \in {ChainEval(memory, q, checks)} :
            CASE e.state = "panic" ->
                   /\ panic' = e.panic
                   /\ emitted' = <<>>
                   /\ UNCHANGED <<pc, runs, res>>
              [] e.state = "hung" ->
                   /\ pc' = "hung"
                   /\ emitted' = <<>>
                   /\ UNCHANGED <<panic, runs, res>>
              [] e.state = "done" /\ Len(e.out) = 0 ->
                   /\ panic' = Panic(MsgUnexpectedResults, <<Len(e.out)>>)
                   /\ emitted' = e.out
                   /\ UNCHANGED <<pc, runs, res>>
              [] OTHER ->
                   /\ runs' = Append(runs, [phases |-> q,
                                             thrust |-> e.out[Len(e.out)]])
                   /\ res' = PermFold(res, q, e.out[Len(e.out)])
                   /\ emitted' = e.out
                   /\ UNCHANGED <<pc, panic>>
    /\ UNCHANGED <<kind, memory, ip, input, output, done, steps, program,
                   supplied, consumed, last, avars, phases, reads, emits>>

\* mutant: a chain that ends with a fatal error is left out of the fold
PermutateStepSkipsFailed ==
    /\ kind = "permutate"
    /\ pc = "fold"
    /\ panic = NoPanic
    /\ \E q \in NextPermutations(phases, {runs[k].phases : k \in 1..Len(runs)}),
          checks \in BOOLEAN :
        \E e \in {ChainEval(memory, q, checks)} :
            CASE e.state = "panic" ->
                   /\ runs' = Append(runs, [phases |-> q, thrust |-> 0])
                   /\ emitted' = <<>>
                   /\ UNCHANGED <<pc, panic, res>>
              [] e.state = "hung" ->
                   /\ pc' = "hung"
                   /\ emitted' = <<>>
                   /\ UNCHANGED <<panic, runs, res>>
              [] e.state = "done" /\ Len(e.out) # 1 ->
                   /\ panic' = Panic(MsgUnexpectedResults, <<Len(e.out)>>)
                   /\ emitted' = e.out
                   /\ UNCHANGED <<pc, runs, res>>
              [] OTHER ->
                   /\ runs' = Append(runs, [phases |-> q, thrust |-> e.out[1]])
                   /\ res' = PermFold(res, q, e.out[1])
                   /\ emitted' = e.out
                   /\ UNCHANGED <<pc, panic>>
    /\ UNCHANGED <<kind, memory, ip, input, output, done, steps, program,
                   supplied, consumed, last, avars, phases, reads, emits>>

\* one item of the stream of permutate and one call of the fold closure:
\* the next permutation, a chain built for it from clones of the program the
\* closure owns (memory), run_single_result, PermFold; emitted keeps what
\* run_and_collect collected from the chain
PermutateStep ==
    /\ kind = "permutate"
    /\ pc = "fold"
    /\ panic = NoPanic
    /\ \E q \in NextPermutations(phases, {runs[k].phases : k \in 1..Len(runs)}),
          checks \in BOOLEAN :
        \E e \in {ChainEval(memory, q, checks)} :
            CASE e.state = "panic" ->
                   /\ panic' = e.panic
                   /\ emitted' = <<>>
                   /\ UNCHANGED <<pc, runs, res>>
              [] e.state = "hung" ->
                   /\ pc' = "hung"
                   /\ emitted' = <<>>
                   /\ UNCHANGED <<panic, runs, res>>
              [] e.state = "done" /\ Len(e.out) # 1 ->
                   /\ panic' = Panic(MsgUnexpectedResults, <<Len(e.out)>>)
                   /\ emitted' = e.out
                   /\ UNCHANGED <<pc, runs, res>>
              [] OTHER ->
                   /\ runs' = Append(runs, [phases |-> q, thrust |-> e.out[1]])
                   /\ res' = PermFold(res, q, e.out[1])
                   /\ emitted' = e.out
                   /\ UNCHANGED <<pc, panic>>
    /\ UNCHANGED <<kind, memory, ip, input, output, done, steps, program,
                   supplied, consumed, last, avars, phases, reads, emits>>

\* the stream of permutate is exhausted: the fold yields its accumulator
PermutateReturn ==
    /\ kind = "permutate"
    /\ pc = "fold"
    /\ panic = NoPanic
    /\ NextPermutations(phases, {runs[k].phases : k \in 1..Len(runs)}) = {}
    /\ pc' = "returned"
    /\ UNCHANGED <<kind, memory, ip, input, output, done, panic, hvars, avars, pvars>>

Init ==
    \/ InitQueue \/ InitChannel \/ InitDay02 \/ InitMemory \/ InitChain
    \/ InitPermutate

Next ==
    \/ SetInput \/ Step \/ Run \/ RunStep \/ RunReturn \/ Noun \/ Verb
    \/ AInput \/ ARun \/ ARunAndCollect \/ AStep \/ AFinish \/ ACollect \/ ACollectEnd
    \/ Day02RunStep
    \/ MemoryGet \/ MemorySet \/ MemoryGetSlice
    \/ ChainRunAndCollect \/ AmpStep \/ AmpFinish \/ ChainCollect \/ ChainCollectEnd
    \/ PermutateStep \/ PermutateReturn

Spec == Init /\ [][Next]_vars

\* the runs of amplifier chains alone
ChainNext ==
    ChainRunAndCollect \/ AmpStep \/ AmpFinish \/ ChainCollect \/ ChainCollectEnd

\* AmplifierChain::new for the chains whose scheduling is examined: those of
\* one and two amplifiers, and one chain of three
InitFairChain ==
    /\ InitChain
    /\ Len(phases) <= 2 \/ (program = AmpExample1 /\ phases = <<2, 1, 0>>)

\* join_all polls every Vm::run that can go on, and join polls collect():
\* a task woken by a send or a receive is run again by the executor; chains
\* of one and two amplifiers, and one chain of three
ChainSpec ==
    /\ InitFairChain
    /\ [][ChainNext]_vars
    /\ \A i \in 1..3 : WF_vars(AmpStepOf(i))
    /\ WF_vars(ChainRunAndCollect)
    /\ WF_vars(AmpFinish)
    /\ WF_vars(ChainCollect)
    /\ WF_vars(ChainCollectEnd)

\* the runs of a single channel based VM with run_and_collect
ChannelNext ==
    AInput \/ ARunAndCollect \/ AStep \/ AFinish \/ ACollect \/ ACollectEnd

\* Vm::new for the programs with Input and Output instructions
InitFairChannel ==
    /\ InitChannel
    /\ program \in IoPrograms \cup TestPrograms

\* join polls Vm::run and rx.collect() whenever either can go on
ChannelSpec ==
    /\ InitFairChannel
    /\ [][ChannelNext]_vars
    /\ WF_vars(AStep)
    /\ WF_vars(AFinish)
    /\ WF_vars(ACollect)
    /\ WF_vars(ACollectEnd)

\* ========================================================== properties
\* What the properties say about a step is phrased over the cells themselves
\* (decimal digits of the opcode cell, operand cells, addresses), not over
\* the operators that model the decoder.

\* the latest call was a step of the queue based or the channel based VM
Stepped == last.call \in {"step", "run-step"}

\* the VM as it was when the latest step() was called
Pre == last.vm

\* the VM that took the latest step, as it is now
Now == IF kind = "channel" THEN vms[last.who] ELSE Self

PreLen == Len(Pre.memory)

\* cell k of the instruction at the instruction pointer is inside memory
InMem(k) == Pre.ip + k < PreLen

PreCell(k) == Pre.memory[Pre.ip + k + 1]

\* the latest step() met an instruction cell with the two low digits o
IsOp(o) == Stepped /\ InMem(0) /\ PreCell(0) >= 0 /\ PreCell(0) % 100 = o

\* decimal digit of the opcode cell at place 10^(n+2)
Digit(n) == (PreCell(0) \div (10 ^ (n + 2))) % 10

ParamCount(o) == IF o \in {1, 2, 7, 8} THEN 3 ELSE IF o \in {5, 6} THEN 2 ELSE 1

\* the first k parameters have their cell in memory and mode digit 0 or 1
Decodable(k) == \A n \in 0..(k - 1) : InMem(n + 1) /\ Digit(n) \in {0, 1}

ValidAddr(a) == a \in 0..(PreLen - 1)

Readable(n) == Digit(n) = 1 \/ ValidAddr(PreCell(n + 1))

Writable(n) == Digit(n) = 0 /\ ValidAddr(PreCell(n + 1))

\* the value of parameter n: the literal, or the cell it addresses
Value(n) == IF Digit(n) = 1 THEN PreCell(n + 1) ELSE Pre.memory[PreCell(n + 1) + 1]

\* nothing of the VM but the panic differs from before the step
StepUndone == Now = [Pre EXCEPT !.panic = Now.panic]

\* the input values a VM has not consumed yet, oldest first
Waiting(vm, cs) ==
    IF kind = "queue" THEN vm.input
    ELSE IF ~vm.input.some THEN <<>>
    ELSE IF vm.input.chan = 0 THEN vm.input.items
    ELSE vm.input.items \o cs[vm.input.chan].buf

\* an output channel was attached when the latest step began
HadOutput == kind = "channel" /\ Pre.output.some

\* C1: once done is true no call changes memory, ip or done again (a further
\* step() decodes the same Halt and panics nowhere), and run() on a halted VM
\* performs no step.
C1_HaltedIsTerminal ==
    [][done => /\ done' /\ memory' = memory /\ ip' = ip /\ panic' = panic
               /\ (pc = "run" => steps' = steps)]_vars

\* C1 witness: a step() was called on a VM that had already halted
C1_Witness == Stepped /\ Pre.done /\ done

\* C2: Add (Multiply) stores the sum (product) of its two operands into the
\* cell its third parameter addresses, changes no other cell and advances ip
\* by 4; the two example programs end with the memories the tests state.
C2_AddMultiply ==
    /\ IsOp(1) /\ Decodable(3) /\ Readable(0) /\ Readable(1) /\ Writable(2) =>
          /\ Now.panic = NoPanic
          /\ Now.memory = [Pre.memory EXCEPT ![PreCell(3) + 1] = Value(0) + Value(1)]
          /\ Now.ip = Pre.ip + 4
    /\ IsOp(2) /\ Decodable(3) /\ Readable(0) /\ Readable(1) /\ Writable(2) =>
          /\ Now.panic = NoPanic
          /\ Now.memory = [Pre.memory EXCEPT ![PreCell(3) + 1] = Value(0) * Value(1)]
          /\ Now.ip = Pre.ip + 4
    /\ program = <<1, 0, 0, 0, 99>> /\ Now.done => Now.memory = <<2, 0, 0, 0, 99>>
    /\ program = <<2, 4, 4, 5, 99, 0>> /\ Now.done =>
          Now.memory = <<2, 4, 4, 5, 99, 9801>>

\* C2 witness: run() has multiplied 99 by 99 and halted
C2_Witness ==
    /\ program = <<2, 4, 4, 5, 99, 0>> /\ done /\ last.call = "run-step"
    /\ memory[6] = 9801

\* C3: the digit at place 10^(n+2) selects the mode of parameter n: 0 is
\* Position (the operand cell is the address), 1 is Immediate (the operand
\* cell is the value); any other digit of a parameter of the instruction
\* panics with "Unknown parameter mode" (naming digit, parameter and opcode
\* cell) while decoding, with the VM untouched.  The operand cells of the
\* parameters decoded before it are required to be inside memory.
C3_ParameterModes ==
    \A o \in 1..8 : IsOp(o) =>
        \A n \in 0..(ParamCount(o) - 1) :
            /\ Decodable(n) /\ Digit(n) \notin {0, 1} =>
                  /\ Now.panic = Panic(MsgUnknownMode, <<Digit(n), n, PreCell(0)>>)
                  /\ StepUndone
            /\ Decodable(ParamCount(o)) /\ Digit(n) = 0 =>
                  /\ last.instr.p[n + 1].mode = "Position"
                  /\ PreCell(n + 1) >= 0 => last.instr.p[n + 1].v = PreCell(n + 1)
            /\ Decodable(ParamCount(o)) /\ Digit(n) = 1 =>
                  /\ last.instr.p[n + 1].mode = "Immediate"
                  /\ last.instr.p[n + 1].v = PreCell(n + 1)

\* C3 witness: opcode 7 with mode digit 2 at its third parameter has panicked
C3_Witness ==
    /\ IsOp(7) /\ Decodable(2) /\ Digit(2) = 2
    /\ panic.msg = MsgUnknownMode

\* C4: a Position parameter is fetched with Memory::get (an address outside
\* memory is its bounds panic), an Immediate parameter is its literal; the
\* store target of Add, Multiply, LessThan, Equals or Input in mode 1 panics
\* and no cell is written; the panic is "Can't store to immediate mode
\* parameter" whenever the instruction gets as far as its store.
C4_FetchAndStore ==
    /\ IsOp(4) /\ Decodable(1) /\ Readable(0) /\ kind = "queue" =>
          Now.panic = NoPanic /\ output = Append(Pre.output, Value(0))
    /\ IsOp(4) /\ Decodable(1) /\ Readable(0) /\ HadOutput =>
          /\ Now.panic = NoPanic
          /\ last.after[Pre.output.chan].buf =
                Append(last.chans[Pre.output.chan].buf, Value(0))
    /\ IsOp(4) /\ Decodable(1) /\ ~Readable(0) /\ (kind = "queue" \/ HadOutput) =>
          Now.panic.msg = MsgReadOutOfBounds /\ StepUndone
    /\ \A o \in {1, 2, 7, 8} : IsOp(o) /\ Decodable(3) /\ Digit(2) = 1 =>
          /\ Now.panic # NoPanic
          /\ Now.memory = Pre.memory
          /\ Readable(0) /\ Readable(1) => Now.panic = Panic(MsgStoreImmediate, <<>>)
    /\ IsOp(3) /\ Decodable(1) /\ Digit(0) = 1 =>
          /\ Now.panic # NoPanic
          /\ Now.memory = Pre.memory
          /\ Waiting(Pre, last.chans) # <<>> =>
                Now.panic = Panic(MsgStoreImmediate, <<>>)

\* C4 witness: an Input instruction with an immediate target had a value to
\* store and panicked
C4_Witness ==
    /\ IsOp(3) /\ Decodable(1) /\ Digit(0) = 1 /\ Pre.input # <<>>
    /\ panic.msg = MsgStoreImmediate

\* C5: LessThan stores 1 if p1 < p2 and 0 otherwise, Equals stores 1 if
\* p1 = p2 and 0 otherwise, into the cell p3 addresses; no other cell changes
\* and ip advances by 4.
C5_LessThanEquals ==
    /\ IsOp(7) /\ Decodable(3) /\ Readable(0) /\ Readable(1) /\ Writable(2) =>
          /\ Now.panic = NoPanic
          /\ Now.memory = [Pre.memory EXCEPT
                              ![PreCell(3) + 1] = IF Value(0) < Value(1) THEN 1 ELSE 0]
          /\ Now.memory[PreCell(3) + 1] \in {0, 1}
          /\ Now.ip = Pre.ip + 4
    /\ IsOp(8) /\ Decodable(3) /\ Readable(0) /\ Readable(1) /\ Writable(2) =>
          /\ Now.panic = NoPanic
          /\ Now.memory = [Pre.memory EXCEPT
                              ![PreCell(3) + 1] = IF Value(0) = Value(1) THEN 1 ELSE 0]
          /\ Now.memory[PreCell(3) + 1] \in {0, 1}
          /\ Now.ip = Pre.ip + 4

\* C5 witness: LessThan compared two equal operands and stored 0 over a cell
\* that held something else
C5_Witness ==
    /\ IsOp(7) /\ Decodable(3) /\ Readable(0) /\ Readable(1) /\ Writable(2)
    /\ Value(0) = Value(1)
    /\ Pre.memory[PreCell(3) + 1] # 0 /\ memory[PreCell(3) + 1] = 0

\* the instruction pointer after a taken jump to target t: t itself, or, for
\* a negative t, no address of the memory
JumpedTo(t) == IF t >= 0 THEN Now.ip = t ELSE Now.ip >= Len(Now.memory)

\* C6: JumpIfTrue sets ip to the value of p2 when p1 is nonzero and otherwise
\* advances it by 3; JumpIfFalse sets it to the value of p2 when p1 is zero
\* and otherwise advances it by 3; neither modifies memory.
C6_Jumps ==
    /\ IsOp(5) /\ Decodable(2) /\ Readable(0) =>
          /\ Value(0) # 0 /\ Readable(1) => Now.panic = NoPanic /\ JumpedTo(Value(1))
          /\ Value(0) = 0 => Now.panic = NoPanic /\ Now.ip = Pre.ip + 3
    /\ IsOp(6) /\ Decodable(2) /\ Readable(0) =>
          /\ Value(0) = 0 /\ Readable(1) => Now.panic = NoPanic /\ JumpedTo(Value(1))
          /\ Value(0) # 0 => Now.panic = NoPanic /\ Now.ip = Pre.ip + 3
    /\ IsOp(5) \/ IsOp(6) => Now.memory = Pre.memory /\ Now.done = Pre.done

\* C6 witness: JumpIfFalse found zero and jumped backwards or forwards to an
\* address other than the next instruction
C6_Witness ==
    /\ IsOp(6) /\ Decodable(2) /\ Readable(0) /\ Readable(1)
    /\ Value(0) = 0 /\ Value(1) >= 0 /\ Value(1) # Pre.ip + 3 /\ ip = Value(1)

\* s is a prefix of t
IsPrefix(s, t) == Len(s) <= Len(t) /\ s = SubSeq(t, 1, Len(s))

\* C7: Input takes the oldest value not yet consumed, stores it into the cell
\* p1 addresses and advances ip by 2, so the values stored so far are the
\* first of the values supplied, in their order, and the values still
\* waiting are the rest (the channel based VM drops the rest when it halts).
C7_InputOrder ==
    /\ IsOp(3) /\ Decodable(1) /\ Writable(0) /\ Waiting(Pre, last.chans) # <<>> =>
          /\ Now.panic = NoPanic
          /\ Now.memory = [Pre.memory EXCEPT
                              ![PreCell(1) + 1] = Head(Waiting(Pre, last.chans))]
          /\ Waiting(Now, last.after) = Tail(Waiting(Pre, last.chans))
          /\ Now.ip = Pre.ip + 2
    /\ IsPrefix(consumed, supplied)
    /\ kind = "queue" /\ panic = NoPanic => consumed \o input = supplied
    /\ kind = "channel" /\ Now.panic = NoPanic /\ ~Now.done =>
          consumed \o Waiting(Now, chans) = supplied

\* C7 witness: two Input instructions have stored the two supplied values
C7_Witness ==
    /\ IsOp(3) /\ panic = NoPanic /\ Len(supplied) = 2
    /\ consumed = supplied /\ input = <<>> /\ kind = "queue"

\* C8: an Input instruction of the queue based VM that finds the queue empty
\* panics with "No input values left"; one of the channel based VM that
\* finds no input stream attached panics with "No input channel set" (and
\* with "No input values left (input channel closed)" when the stream has
\* ended); the VM and the channels stay as they were, and an Input step that
\* did not panic had a supplied value to take.
C8_InputExhausted ==
    /\ kind = "queue" /\ IsOp(3) /\ Decodable(1) /\ Pre.input = <<>> =>
          /\ Now.panic = Panic(MsgNoInputLeft, <<>>)
          /\ StepUndone
    /\ kind = "channel" /\ IsOp(3) /\ Decodable(1) /\ ~Pre.input.some =>
          /\ Now.panic = Panic(MsgNoInputChannel, <<>>)
          /\ StepUndone
          /\ last.after = last.chans
    /\ kind = "channel" /\ IsOp(3) /\ Decodable(1) /\ Pre.input.some
       /\ Pre.input.items = <<>> /\ Pre.input.chan = 0 =>
          /\ Now.panic = Panic(MsgInputClosed, <<>>)
          /\ StepUndone
    /\ IsOp(3) /\ Now.panic = NoPanic =>
          /\ Waiting(Pre, last.chans) # <<>>
          /\ consumed # <<>>
          /\ consumed[Len(consumed)] = Head(Waiting(Pre, last.chans))

\* C8 witness: the channel based VM met an Input instruction with no input
\* stream attached and panicked
C8_Witness ==
    /\ kind = "channel" /\ IsOp(3) /\ Decodable(1) /\ ~Pre.input.some
    /\ Now.panic.msg = MsgNoInputChannel

\* C9: Output emits the value of p1, leaves memory unchanged and advances ip
\* by 2; the output log of the queue based VM is the sequence of the values
\* emitted so far, and the values the channel based VM emitted are the ones
\* collected from its output channel followed by the ones still in it.
C9_Output ==
    /\ IsOp(4) /\ Decodable(1) /\ Readable(0) /\ (kind = "queue" \/ HadOutput) =>
          /\ Now.panic = NoPanic
          /\ Now.memory = Pre.memory
          /\ Now.ip = Pre.ip + 2
          /\ emitted # <<>>
          /\ emitted[Len(emitted)] = Value(0)
    /\ IsOp(4) /\ Decodable(1) /\ Readable(0) /\ kind = "queue" =>
          output = Append(Pre.output, Value(0))
    /\ IsOp(4) /\ Decodable(1) /\ Readable(0) /\ HadOutput =>
          last.after[Pre.output.chan].buf =
              Append(last.chans[Pre.output.chan].buf, Value(0))
    /\ Stepped /\ kind = "queue" /\ ~IsOp(4) => output = Pre.output
    /\ kind = "queue" => output = emitted
    /\ kind = "channel" /\ collector.state # "none" =>
          collected \o chans[collector.chan].buf = emitted

\* C9 witness: run_and_collect returned the values of at least two Output
\* instructions
C9_Witness ==
    /\ kind = "channel" /\ collector.state = "done"
    /\ Len(collected) >= 2 /\ collected = emitted

\* C10: the opcode is the first cell modulo 100; a cell whose opcode is none
\* of 1..8 and 99, every negative cell included, panics with "Unknown opcode"
\* and leaves the VM as it was.  The IntCodeVm of bin/day02.rs, which matches
\* the whole cell, panics on each such cell as well, naming cell and address.
C10_UnknownOpcode ==
    /\ Stepped /\ InMem(0) /\ PreCell(0) >= 0
       /\ PreCell(0) % 100 \in (1..8) \cup {99} =>
          /\ Now.panic.msg # MsgUnknownOpcode
          /\ last.instr.op = OpName(PreCell(0) % 100)
    /\ Stepped /\ InMem(0) /\ PreCell(0) >= 0
       /\ PreCell(0) % 100 \notin (1..8) \cup {99} =>
          /\ Now.panic = Panic(MsgUnknownOpcode, <<PreCell(0) % 100>>)
          /\ StepUndone
    /\ Stepped /\ InMem(0) /\ PreCell(0) < 0 =>
          /\ Now.panic.msg = MsgUnknownOpcode
          /\ StepUndone
    /\ last.call = "day02-step" /\ InMem(0)
       /\ PreCell(0) % 100 \notin (1..8) \cup {99} =>
          /\ Now.panic = Panic(MsgUnknownOpcodeAt, <<PreCell(0), Pre.ip>>)
          /\ StepUndone

\* C10 witness: a negative cell was met as an instruction
C10_Witness ==
    Stepped /\ InMem(0) /\ PreCell(0) < 0 /\ panic.msg = MsgUnknownOpcode

\* the latest call was the call c of Memory
MemCalled(c) == kind = "memory" /\ last.call = c

\* the memory the latest call of Memory was made on
PreMem == last.vm.memory

\* C11: get(a) and set(a, v) succeed exactly when a < length; at a = length
\* and beyond both panic with their out of bounds message (naming address and
\* length) and the memory is as it was.
C11_MemoryBounds ==
    /\ MemCalled("get") /\ last.addr < Len(PreMem) =>
          panic = NoPanic /\ last.ret = PreMem[last.addr + 1] /\ memory = PreMem
    /\ MemCalled("get") /\ last.addr >= Len(PreMem) =>
          /\ panic = Panic(MsgReadOutOfBounds, <<last.addr, Len(PreMem)>>)
          /\ memory = PreMem
    /\ MemCalled("set") /\ last.addr < Len(PreMem) => panic = NoPanic
    /\ MemCalled("set") /\ last.addr >= Len(PreMem) =>
          /\ panic = Panic(MsgWriteOutOfBounds, <<last.addr, Len(PreMem)>>)
          /\ memory = PreMem

\* C11 witness: get was called with the length of a non-empty memory as the
\* address and panicked
C11_Witness ==
    /\ MemCalled("get") /\ PreMem # <<>> /\ last.addr = Len(PreMem)
    /\ panic.msg = MsgReadOutOfBounds

\* C12: after set(a, v) at an address inside memory cell a holds v, every
\* other cell holds what it held and the length is the same; a get(a) that
\* follows returns v; the memory of a VM keeps the length of its program
\* whatever steps it takes.
C12_SetThenGet ==
    /\ MemCalled("set") /\ last.addr < Len(PreMem) =>
          /\ Len(memory) = Len(PreMem)
          /\ memory[last.addr + 1] = last.value
          /\ \A k \in 1..Len(PreMem) : k # last.addr + 1 => memory[k] = PreMem[k]
    /\ MemCalled("get") /\ last.prev.call = "set" /\ last.prev.addr = last.addr
       /\ panic = NoPanic =>
          last.ret = last.prev.value
    /\ kind \in {"queue", "day02", "memory"} => Len(memory) = Len(program)
    /\ kind \in {"channel", "chain"} =>
          \A i \in 1..Len(vms) : Len(vms[i].memory) = Len(program)

\* C12 witness: get returned the value that the set before it wrote over a
\* cell holding another value
C12_Witness ==
    /\ MemCalled("get") /\ last.prev.call = "set" /\ last.prev.addr = last.addr
    /\ panic = NoPanic /\ last.ret = 7 /\ program[last.addr + 1] # 7

\* C13: get_slice(a, len) with a < length returns the cells a ..
\* min(a + len, length) - 1 in order, and with a >= length fails with the
\* out of bounds panic whatever len is.
C13_GetSlice ==
    /\ MemCalled("get_slice") /\ last.addr < Len(PreMem) =>
          /\ panic = NoPanic
          /\ last.ret = SubSeq(PreMem, last.addr + 1,
                               Min(last.addr + last.len, Len(PreMem)))
    /\ MemCalled("get_slice") /\ last.addr >= Len(PreMem) =>
          panic.msg = MsgReadOutOfBounds

\* the cell at the instruction pointer was written by an earlier step
Overwritten == Stepped /\ InMem(0) /\ PreCell(0) # program[Pre.ip + 1]

\* C14: a step executes what memory holds at the instruction pointer when it
\* is taken: it halts exactly when that cell is a Halt, the instruction it
\* decodes is the one the cells encode also when an earlier step wrote them,
\* and [1,1,1,4,99,5,6,0,99] ends as [30,1,1,4,2,5,6,0,99].
C14_FreshDecode ==
    /\ Stepped /\ ~Pre.done =>
          (Now.done <=> InMem(0) /\ PreCell(0) >= 0 /\ PreCell(0) % 100 = 99)
    /\ \A o \in 1..8 : IsOp(o) /\ Decodable(ParamCount(o)) =>
          /\ last.instr.op = OpName(o)
          /\ \A n \in 0..(ParamCount(o) - 1) :
                PreCell(n + 1) >= 0 => last.instr.p[n + 1].v = PreCell(n + 1)
    /\ Overwritten /\ PreCell(0) = 2 /\ Decodable(3) /\ Readable(0) /\ Readable(1)
       /\ Writable(2) =>
          Now.memory[PreCell(3) + 1] = Value(0) * Value(1)
    /\ program = <<1, 1, 1, 4, 99, 5, 6, 0, 99>> /\ Now.done =>
          Now.memory = <<30, 1, 1, 4, 2, 5, 6, 0, 99>>

\* C14 witness: run() executed the Multiply that the Add before it had
\* written over the Halt in cell 4, then halted
C14_Witness ==
    /\ program = <<1, 1, 1, 4, 99, 5, 6, 0, 99>> /\ kind = "queue"
    /\ last.call = "run-step" /\ done
    /\ memory[5] = 2 /\ memory[1] = 30

\* The program was given one input value and, if it runs on the channel
\* based VM, is run by run_and_collect: it never panics, it has halted once
\* n steps are taken, and what it has put out when halted is exactly <<e>>.
HaltsWith(n, e) ==
    /\ kind = "queue" =>
          /\ panic = NoPanic
          /\ steps >= n => done
          /\ done => output = <<e>>
    /\ kind = "channel" /\ collector.state # "none" =>
          /\ vms[1].panic = NoPanic
          /\ steps >= n => vms[1].done
          /\ vms[1].done => collected \o chans[collector.chan].buf = <<e>>
          /\ collector.state = "done" => collected = <<e>>

\* the one input value the test program was given
X == supplied[1]

\* C15: given x, the two Equals programs halt with output <<1>> if x = 8 and
\* <<0>> otherwise, the two LessThan programs with <<1>> if x < 8 and <<0>>
\* otherwise.
C15_ComparisonPrograms ==
    /\ program \in Day05Equals /\ supplied # <<>> =>
          HaltsWith(4, IF X = 8 THEN 1 ELSE 0)
    /\ program \in Day05LessThan /\ supplied # <<>> =>
          HaltsWith(4, IF X < 8 THEN 1 ELSE 0)

\* C15 witness: the immediate mode Equals program was run on 8 and halted
\* with output <<1>>
C15_Witness ==
    /\ program = <<3, 3, 1108, -1, 8, 3, 4, 3, 99>> /\ supplied = <<8>>
    /\ kind = "queue" /\ done /\ output = <<1>>

\* C16: given x, the position mode and the immediate mode jump program halt
\* with output <<0>> if x = 0 and <<1>> otherwise.
C16_JumpPrograms ==
    program \in Day05Jumps /\ supplied # <<>> =>
        HaltsWith(5, IF X = 0 THEN 0 ELSE 1)

\* C16 witness: run_and_collect returned <<0>> for the position mode jump
\* program run on 0
C16_Witness ==
    /\ program = <<3, 12, 6, 12, 15, 1, 13, 14, 13, 4, 13, 99, -1, 0, 1, 9>>
    /\ supplied = <<0>> /\ kind = "channel"
    /\ collector.state = "done" /\ collected = <<0>>

\* C17: given x, the large example program halts with output <<999>> if
\* x < 8, <<1000>> if x = 8 and <<1001>> if x > 8.
C17_LargeExample ==
    program = Day05Large /\ supplied # <<>> =>
        HaltsWith(10, IF X < 8 THEN 999 ELSE IF X = 8 THEN 1000 ELSE 1001)

\* C17 witness: the large example program was run on 9 and halted with
\* output <<1001>>
C17_Witness ==
    /\ program = Day05Large /\ supplied = <<9>>
    /\ kind = "queue" /\ done /\ output = <<1001>>

\* the values amplifier i has read after its phase
ReadAfterPhase(i) == IF reads[i] = <<>> THEN <<>> ELSE Tail(reads[i])

\* C20: the first value an amplifier reads is its phase; the first amplifier
\* then reads 0 and nothing more; every other amplifier reads, after its
\* phase, the values the amplifier before it sent, in the order sent; and
\* every value an amplifier sent was read by the next one or waits in the
\* channel between the two.
C20_ChainWiring ==
    \A i \in 1..Len(reads) :
        /\ reads[i] # <<>> => reads[i][1] = phases[i]
        /\ i = 1 => IsPrefix(reads[1], <<phases[1], 0>>)
        /\ i > 1 => IsPrefix(ReadAfterPhase(i), emits[i - 1])
        /\ i > 1 => emits[i - 1] = ReadAfterPhase(i) \o chans[i - 1].buf

\* C20 witness: in a chain of three the third amplifier has read its phase
\* and then the two values the second sent, which had read the two values
\* the first sent
C20_Witness ==
    /\ kind = "chain" /\ program = AmpBranch /\ phases = <<0, 1, 2>>
    /\ reads[1] = <<0, 0>> /\ emits[1] = <<5, 6>>
    /\ reads[2] = <<1, 5, 6>> /\ emits[2] = <<6, 5>>
    /\ reads[3] = <<2, 6, 5>>

\* permutate_max has returned
Returned == kind = "permutate" /\ pc = "returned"

\* q uses each of the phases handed to permutate_max for exactly one amplifier
IsPermutation(q) ==
    /\ Len(q) = Len(phases)
    /\ \A x \in Elements(phases) : Cardinality({i \in 1..Len(q) : q[i] = x}) = 1

RECURSIVE Signal(_)
\* the final signal of the example program: every amplifier appends its phase
\* as a decimal digit to the signal it is given
Signal(q) ==
    IF q = <<>> THEN 0 ELSE 10 * Signal(SubSeq(q, 1, Len(q) - 1)) + q[Len(q)]

\* the largest final signal of the chains run so far
MaxThrust ==
    CHOOSE t \in {runs[k].thrust : k \in 1..Len(runs)} :
        \A k \in 1..Len(runs) : runs[k].thrust <= t

\* C18: permutate_max runs the chain once for every permutation of the
\* phases, each phase used by exactly one amplifier, every run yielding what
\* the chain of that permutation collects; it returns one of these
\* permutations with its final signal, and no permutation has a larger one;
\* for the example program over 0..4 it returns (<<4,3,2,1,0>>, 43210).
C18_PermutateMax ==
    /\ kind = "permutate" =>
        /\ \A k \in 1..Len(runs) : IsPermutation(runs[k].phases)
        /\ \A j, k \in 1..Len(runs) : runs[j].phases = runs[k].phases => j = k
        /\ program = AmpExample1 =>
              \A k \in 1..Len(runs) : runs[k].thrust = Signal(runs[k].phases)
    /\ Returned =>
        /\ \A q \in [1..Len(phases) -> Elements(phases)] :
              IsPermutation(q) => \E k \in 1..Len(runs) : runs[k].phases = q
        /\ res.some
        /\ \E k \in 1..Len(runs) :
              runs[k] = [phases |-> res.phases, thrust |-> res.thrust]
        /\ \A k \in 1..Len(runs) : runs[k].thrust <= res.thrust
        /\ program = AmpExample1 /\ phases = <<0, 1, 2, 3, 4>> =>
              res.phases = <<4, 3, 2, 1, 0>> /\ res.thrust = 43210
    /\ kind = "chain" =>
        /\ collector.state = "done" /\ (\A i \in 1..Len(task) : task[i] = "finished") =>
              \A checks \in BOOLEAN :
                  /\ ChainEval(program, phases, checks).state = "done"
                  /\ ChainEval(program, phases, checks).out = collected
        /\ Aborted => \E checks \in BOOLEAN :
                          ChainEval(program, phases, checks).state = "panic"

\* C18 witness: permutate_max has returned for the example program over
\* 0..4 after 120 runs, with (<<4,3,2,1,0>>, 43210)
C18_Witness ==
    /\ Returned /\ program = AmpExample1 /\ phases = <<0, 1, 2, 3, 4>>
    /\ Len(runs) = 120
    /\ res = [some |-> TRUE, phases |-> <<4, 3, 2, 1, 0>>, thrust |-> 43210]

\* C19: when several permutations reach the maximum final signal,
\* permutate_max reports the one the generator yielded first: a later
\* permutation with an equal signal never replaces an earlier one.
C19_FirstFound ==
    Returned =>
        LET first == CHOOSE k \in 1..Len(runs) :
                        /\ runs[k].thrust = res.thrust
                        /\ \A j \in 1..(k - 1) : runs[j].thrust # res.thrust
        IN  res.thrust = MaxThrust /\ res.phases = runs[first].phases

\* C19, amended: when several permutations reach the maximum final signal,
\* permutate_max reports the one the generator yielded last: a later
\* permutation with an equal signal replaces the earlier one.
C19_LastFound ==
    kind = "permutate" /\ runs # <<>> =>
        LET last_max == CHOOSE k \in 1..Len(runs) :
                           /\ runs[k].thrust = res.thrust
                           /\ \A j \in (k + 1)..Len(runs) : runs[j].thrust # res.thrust
        IN  /\ res.some
            /\ res.thrust = MaxThrust
            /\ res.phases = runs[last_max].phases

\* C19 witness: permutate_max has returned after two permutations of three
\* phases reached the maximum, and reports the later of the two
C19_Witness ==
    /\ Returned /\ program = AmpShift /\ phases = <<0, 1, 2>>
    /\ \E j, k \in 1..Len(runs) :
        /\ j < k
        /\ runs[j].thrust = MaxThrust
        /\ runs[k].thrust = MaxThrust
        /\ res.phases = runs[k].phases

\* AmplifierChain::run has completed: join_all has every Vm::run completed
RunCompleted ==
    kind = "chain" /\ \A i \in 1..Len(task) : task[i] = "finished"

\* amplifier i has halted: its program executed 99
Halted(i) == vms[i].done /\ vms[i].panic = NoPanic

\* C21: the run of a chain completes only in a state where every amplifier
\* has halted, never while an amplifier is still running or suspended; the
\* run of a single amplifier within it completes only once it has halted.
C21_RunCompletesHalted ==
    kind = "chain" =>
        /\ RunCompleted => \A i \in 1..Len(vms) : Halted(i)
        /\ \A i \in 1..Len(vms) : task[i] = "finished" => Halted(i)
        /\ collector.state = "done" => Halted(Len(vms))

\* C21 witness: the run of a chain of three amplifiers has completed
C21_Witness ==
    /\ RunCompleted /\ Len(vms) = 3
    /\ \A i \in 1..3 : Halted(i)

\* the latest step of the chain was taken by amplifier i
AmpStepped(i) == kind = "chain" /\ last.call = "amp-step" /\ last.who = i

\* the opcode of the instruction amplifier vm is about to execute, -1 if
\* its instruction pointer is outside its memory or the cell is negative
OpcodeAt(vm) ==
    IF vm.ip < Len(vm.memory) /\ vm.memory[vm.ip + 1] >= 0
    THEN vm.memory[vm.ip + 1] % 100 ELSE -1

\* C22: every channel holds at most one undelivered value: an amplifier has
\* finished emitting at most one value more than the next has received, so
\* emits and receives on a channel alternate; and an amplifier advances over
\* an Output only from a state in which its channel held no value, that is,
\* it waits at the Output while the value before waits in the channel.
C22_OneInFlight ==
    kind = "chain" =>
        /\ \A c \in 1..Len(chans) : Len(chans[c].buf) <= 1
        /\ \A i \in 1..(Len(vms) - 1) :
              Len(emits[i]) - Len(ReadAfterPhase(i + 1)) \in {0, 1}
        /\ Len(emits[Len(vms)]) - Len(collected) \in {0, 1}
        /\ \A i \in 1..Len(vms) :
              AmpStepped(i) /\ OpcodeAt(last.vm) = 4 /\ vms[i].ip # last.vm.ip =>
                  /\ last.chans[i].buf = <<>>
                  /\ Len(last.after[i].buf) = 1
                  /\ vms[i].ip = last.vm.ip + 2

\* C22 witness: the first amplifier has emitted one of its two values and
\* waits at its second Output, the first value being in the channel still
C22_Witness ==
    /\ kind = "chain" /\ program = AmpRelay /\ Len(vms) = 2
    /\ emits[1] = <<0>> /\ ReadAfterPhase(2) = <<>>
    /\ chans[1].buf = <<0>>
    /\ OpcodeAt(vms[1]) = 4 /\ ~vms[1].done

\* the values received so far from channel c of a chain: by the amplifier
\* after amplifier c, or by collect() from the last amplifier
Received(c) == IF c < Len(vms) THEN ReadAfterPhase(c + 1) ELSE collected

\* C23: on every channel the values received are, in order, the first of the
\* values emitted: none is lost, duplicated or reordered, and the values not
\* received yet are those waiting in the channel.
C23_ChannelFifo ==
    /\ kind = "chain" =>
          \A c \in 1..Len(chans) :
              /\ IsPrefix(Received(c), emits[c])
              /\ emits[c] = Received(c) \o chans[c].buf
    /\ kind = "channel" /\ collector.state # "none" =>
          /\ IsPrefix(collected, emitted)
          /\ emitted = collected \o chans[collector.chan].buf

\* C23 witness: the second amplifier has received, in order, the two values
\* the first emitted, and collect() the two values the second emitted
C23_Witness ==
    /\ kind = "chain" /\ program = AmpBranch /\ phases = <<0, 1>>
    /\ emits[1] = <<5, 6>> /\ Received(1) = <<5, 6>>
    /\ emits[2] = <<6, 5>> /\ Received(2) = <<6, 5>>

\* amplifier i is running and about to execute an Input
AtInput(i) ==
    /\ kind = "chain" /\ i \in 1..Len(vms)
    /\ task[i] = "running" /\ ~vms[i].done /\ vms[i].panic = NoPanic
    /\ OpcodeAt(vms[i]) = 3

\* amplifier i has taken the values given to its stream at construction and
\* reads from the channel of the amplifier before it
OnChannel(i) ==
    vms[i].input.some /\ vms[i].input.items = <<>> /\ vms[i].input.chan # 0

\* amplifier i waits at an Input for a value: its channel is empty and its
\* producer has not dropped the Sender
AwaitsInput(i) ==
    /\ AtInput(i) /\ OnChannel(i)
    /\ chans[vms[i].input.chan].buf = <<>>
    /\ chans[vms[i].input.chan].senders > 0

\* amplifier i is at an Input and its producer's value is in the channel
InputArrived(i) ==
    /\ AtInput(i) /\ OnChannel(i)
    /\ chans[vms[i].input.chan].buf # <<>>

\* the latest step was amplifier i executing an Input: it took the value
\* waiting in its channel, stored it at the address its parameter names and
\* moved its instruction pointer on by 2
InputStored(i) ==
    /\ AmpStepped(i)
    /\ OpcodeAt(last.vm) = 3
    /\ last.vm.input.items = <<>>
    /\ last.chans[i - 1].buf # <<>>
    /\ last.after[i - 1].buf = Tail(last.chans[i - 1].buf)
    /\ vms[i].panic = NoPanic
    /\ vms[i].ip = last.vm.ip + 2
    /\ vms[i].memory = [last.vm.memory EXCEPT
                           ![last.vm.memory[last.vm.ip + 2] + 1] =
                               Head(last.chans[i - 1].buf)]

\* an amplifier that waits at an Input is not changed by any step, and an
\* amplifier at an Input with a value in its channel is changed only by
\* storing that value or by the fatal error of the store
InputSuspends ==
    [][\A i \in 2..3 :
          /\ AwaitsInput(i) => vms'[i] = vms[i] /\ reads'[i] = reads[i]
          /\ InputArrived(i) /\ vms'[i] # vms[i] =>
                InputStored(i)' \/ vms'[i].panic # NoPanic]_vars

InputClosed(i) ==
    /\ AtInput(i) /\ OnChannel(i)
    /\ chans[vms[i].input.chan].buf = <<>>
    /\ chans[vms[i].input.chan].senders = 0

\* the only step of an amplifier at an Input on an empty channel whose
\* producer has halted is the fatal error: it reads no value and stores none
InputClosedFails ==
    [][\A i \in 2..3 :
          InputClosed(i) /\ vms'[i] # vms[i] =>
             /\ vms'[i].panic = Panic(MsgInputClosed, <<>>)
             /\ vms'[i].memory = vms[i].memory
             /\ reads'[i] = reads[i]]_vars

\* C25: an amplifier at an Input whose channel is empty and whose producer
\* has halted is not suspended for ever and reads no made-up value: its run,
\* and the run of the chain with it, ends with the fatal error "No input
\* values left (input channel closed)".
C25_ClosedInputFatal ==
    /\ InputClosedFails
    /\ \A i \in 2..3 : InputClosed(i) ~> Aborted

\* C25 witness: the second amplifier was suspended at an Input until the first
\* halted without having emitted a value, and then failed
C25_Witness ==
    /\ program = AmpSilent /\ phases = <<0, 1>>
    /\ AmpStepped(2) /\ OpcodeAt(last.vm) = 3
    /\ last.chans[1].buf = <<>> /\ last.chans[1].senders = 0
    /\ vms[1].done /\ emits[1] = <<>>
    /\ vms[2].panic = Panic(MsgInputClosed, <<>>)
    /\ reads[2] = <<1>>

\* the run of the chain or of permutate_max has ended with a fatal error
RunFatal ==
    \/ kind = "chain" /\ Aborted
    \/ kind = "permutate" /\ panic # NoPanic

\* C26: a fatal error of any amplifier ends the whole run with that fatal
\* error: the run of the chain never completes and nothing steps after it;
\* permutate_max never returns a maximum after it: the fold takes a signal
\* only from a chain none of whose amplifiers failed, and permutate_max
\* returns only after it has taken one from the chain of every permutation.
C26_FatalEndsRun ==
    /\ [](/\ kind = "chain" /\ Aborted => ~RunCompleted
          /\ kind = "permutate" =>
                /\ panic # NoPanic => pc = "fold"
                /\ runs # <<>> =>
                      \A checks \in BOOLEAN :
                          ChainEval(program, runs[Len(runs)].phases, checks).state
                              = "done"
                /\ Returned => Len(runs) = Factorial(Len(phases)))
    /\ [][RunFatal => vars' = vars]_vars

\* C26 witness: permutate_max had folded the signal of one permutation when
\* an amplifier of the chain of the other executed an unknown opcode
C26_Witness ==
    /\ kind = "permutate" /\ program = AmpAscending
    /\ Len(runs) = 1 /\ res.some
    /\ panic.msg = MsgUnknownOpcode
    /\ pc = "fold"

\* amplifier i is at an Output to the channel of the amplifier after it
AtOutput(i) ==
    /\ kind = "chain" /\ i \in 1..(Len(vms) - 1)
    /\ task[i] = "running" /\ ~vms[i].done /\ vms[i].panic = NoPanic
    /\ OpcodeAt(vms[i]) = 4
    /\ vms[i].output.some

\* the amplifier that reads channel i has halted: it receives no more
ConsumerHalted(i) == vms[i + 1].done

\* C27: when an amplifier executes Output after its consumer has halted,
\* also while the channel is full, the run of the chain ends with a fatal
\* error: it does not hang, and it does not complete as if the value had
\* been delivered.
C27_OutputToHaltedFatal ==
    \A i \in 1..2 : (AtOutput(i) /\ ConsumerHalted(i)) ~> Aborted

\* C28: every amplifier runs on its own copy of the program: a step of one
\* amplifier changes the memory of no other amplifier and never the program
\* the chain was built from, and every chain of permutate_max is built from
\* the program as permutate_max was given it.
C28_OwnProgramCopy ==
    /\ [][kind = "chain" =>
            /\ program' = program
            /\ \A j \in 1..Len(vms) :
                  vms'[j].memory # vms[j].memory => AmpStepped(j)']_vars
    /\ [](kind = "permutate" => memory = program)

\* C28 witness: the first amplifier has stored a value in its memory, which
\* differs from the memory of the second and from the program
C28_Witness ==
    /\ AmpStepped(1) /\ Len(vms) >= 2
    /\ vms[1].memory # last.vm.memory
    /\ vms[2].memory # program
    /\ vms[1].memory # vms[2].memory
    /\ vms[1].memory # program

\* the latest chain of permutate_max ran to its end and emitted these values
Collected == IF kind = "permutate" THEN emitted ELSE <<>>

\* C29: the result of a run of the chain is the last value its last
\* amplifier emitted, also when it emitted more than one value.
C29_ResultIsLastEmitted ==
    Collected # <<>> =>
        /\ panic = NoPanic
        /\ runs # <<>>
        /\ runs[Len(runs)].thrust = Collected[Len(Collected)]

\* C29, amended: the result of a run of the chain is the single value its
\* last amplifier emitted; when it emitted more than one value, or none, the
\* run ends with the fatal error "Amplifier yielded N results unexpectedly".
C29_ResultIsSingleEmitted ==
    kind = "permutate" =>
        /\ Len(Collected) = 1 =>
              /\ panic = NoPanic
              /\ runs # <<>>
              /\ runs[Len(runs)].thrust = Collected[1]
        /\ Len(Collected) > 1 =>
              panic = Panic(MsgUnexpectedResults, <<Len(Collected)>>)
        /\ panic.msg = MsgUnexpectedResults =>
              Len(Collected) # 1 /\ panic.args = <<Len(Collected)>>
        /\ runs # <<>> =>
              \A checks \in BOOLEAN :
                  ChainEval(program, runs[Len(runs)].phases, checks).out
                      = <<runs[Len(runs)].thrust>>

\* C29 witness: the chain of the second permutation emitted one value, which
\* is its result
C29_Witness ==
    /\ kind = "permutate" /\ program = AmpCount
    /\ Len(runs) = 2 /\ panic = NoPanic
    /\ Collected = <<runs[2].thrust>>

\* C30: the chain run with a bounded feedback-loop program over the phases
\* 5..9, the output of the last amplifier delivered to the input of the
\* first after its phase and the signal 0, completes with every amplifier
\* halted: no chain of permutate_max ends with a fatal error or hangs.
C30_FeedbackCompletes ==
    kind = "permutate" /\ program = AmpFeedback /\ phases = FeedbackPhases =>
        panic = NoPanic /\ pc # "hung"

RECURSIVE SeqRun(_, _, _)
\* Vm::run of intcode.rs: steps until the program has halted
SeqRun(vm, fuel, checks) ==
    IF vm.done \/ vm.panic # NoPanic \/ fuel = 0 THEN vm
    ELSE SeqRun(VmStep(vm, checks), fuel - 1, checks)

\* amplifier i of the sequential run, given its phase and then `feed`
SeqAmp(prog, ph, i, feed, checks) ==
    SeqRun([NewVm(prog) EXCEPT !.input = <<ph[i]>> \o feed],
           Len(ph) * MaxTestSteps, checks)

RECURSIVE SeqFrom(_, _, _, _, _)
\* the amplifiers i .. Len(ph) run one after another, each to completion,
\* each given the whole output log of the one before: [ok, log], ok if
\* every one of them halted, log the output log of the last
SeqFrom(prog, ph, i, feed, checks) ==
    LET vm == SeqAmp(prog, ph, i, feed, checks)
    IN  IF ~vm.done \/ vm.panic # NoPanic THEN [ok |-> FALSE, log |-> <<>>]
        ELSE IF i = Len(ph) THEN [ok |-> TRUE, log |-> vm.output]
        ELSE SeqFrom(prog, ph, i + 1, vm.output, checks)

\* the sequential run of the chain: amplifier 1 is given <<p1, 0>>
SeqChain(prog, ph, checks) == SeqFrom(prog, ph, 1, <<0>>, checks)

SteppingExample1 ==
    kind = "queue" /\ program = <<1, 0, 0, 0, 99>> /\ pc = "idle"

\* C32: for the program <<1, 0, 0, 0, 99>> started at instruction pointer 0,
\* done is false after exactly two step() calls and true after the third,
\* the Halt.
C32_HaltsAtThirdStep ==
    SteppingExample1 =>
        /\ steps = 2 => ~done
        /\ steps = 3 => done

\* C32, amended: for the program <<1, 0, 0, 0, 99>> started at instruction
\* pointer 0, done is false after exactly one step() call (the Add, which
\* advances over its four cells to the Halt) and true after the second, the
\* Halt.
C32_HaltsAtSecondStep ==
    SteppingExample1 =>
        /\ steps = 0 => ~done /\ ip = 0
        /\ steps = 1 => ~done /\ ip = 4 /\ memory = <<2, 0, 0, 0, 99>>
        /\ steps = 2 => done /\ IsOp(99) /\ Pre.ip = 4 /\ ~Pre.done
        /\ steps >= 2 => done /\ ip = 4 /\ memory = <<2, 0, 0, 0, 99>>
        /\ panic = NoPanic

\* C32 witness: the second step() call has executed the Halt
C32_Witness ==
    /\ SteppingExample1 /\ steps = 2 /\ last.call = "step"
    /\ IsOp(99) /\ ~Pre.done /\ done

\* the latest call was noun(v) or verb(v), which write address 1 and 2
SetCellCalled == kind = "queue" /\ last.call \in {"noun", "verb"}

CellSet == IF last.call = "noun" THEN 1 ELSE 2

\* C33: noun(v) writes v to address 1 and verb(v) writes v to address 2
\* exactly when 0 <= v <= 99; for any other v, greater than 99 or negative,
\* the call is rejected by the range check and memory is not written.
C33_NounVerbRange ==
    SetCellCalled =>
        /\ last.value \in 0..99 =>
              /\ panic = NoPanic
              /\ memory = [Pre.memory EXCEPT ![CellSet + 1] = last.value]
        /\ last.value \notin 0..99 =>
              /\ panic # NoPanic
              /\ memory = Pre.memory

\* the latest step() took the jump of a JumpIfNotZero or JumpIfZero whose
\* operands could be read
JumpTaken ==
    /\ IsOp(5) \/ IsOp(6)
    /\ Decodable(2) /\ Readable(0) /\ Readable(1)
    /\ IsOp(5) <=> Value(0) # 0

\* C34: a jump never fails at the jump itself because of its target, and the
\* instruction pointer is validated only at the next fetch: a step() called
\* with the instruction pointer at or past the length of memory fails with
\* the out of bounds panic of the read, whatever brought the pointer there.
C34_LazyIpValidation ==
    /\ JumpTaken => Now.panic = NoPanic /\ JumpedTo(Value(1))
    /\ Stepped /\ Pre.panic = NoPanic /\ Pre.ip >= PreLen =>
          /\ Now.panic.msg = MsgReadOutOfBounds
          /\ StepUndone

\* C35: the panic of an unknown opcode names the opcode and the address of
\* the instruction, and the panic of an unknown parameter mode names the
\* opcode cell, the index of the parameter and the address of the
\* instruction.
C35_ErrorsNameAddress ==
    /\ Stepped /\ Now.panic.msg = MsgUnknownOpcode =>
          Now.panic.args = <<PreCell(0) % 100, Pre.ip>>
    /\ Stepped /\ Now.panic.msg = MsgUnknownMode =>
          \E n \in 0..2 :
              Now.panic.args \in {<<PreCell(0), n, Pre.ip>>,
                                  <<Digit(n), n, PreCell(0), Pre.ip>>}

\* memory, instruction pointer and done flag of VM b are those of VM a
SameState(a, b) == a.memory = b.memory /\ a.ip = b.ip /\ a.done = b.done

\* C36: a step that ends in a panic (unknown opcode, unknown parameter mode,
\* operand read or store outside memory, store to an immediate parameter, no
\* input) leaves memory, instruction pointer and done flag of the VM as they
\* were before the step: no instruction is applied in part.
C36_FatalStepLeavesState ==
    /\ Stepped /\ Pre.panic = NoPanic /\ Now.panic # NoPanic =>
          SameState(Pre, Now)
    /\ kind = "chain" /\ last.call = "amp-step"
       /\ last.vm.panic = NoPanic /\ vms[last.who].panic # NoPanic =>
          SameState(last.vm, vms[last.who])

\* C36 witness: an Input whose store failed has taken its value from the
\* queue and left memory and instruction pointer alone
C36_Witness ==
    /\ kind = "queue" /\ IsOp(3) /\ Decodable(1) /\ ~Writable(0)
    /\ Now.panic.msg \in {MsgStoreImmediate, MsgWriteOutOfBounds}
    /\ Len(Now.input) < Len(Pre.input)
    /\ SameState(Pre, Now)

\* the queue based VM created with the program of the channel based VM,
\* given the values of its stream and run
QueueRun(checks) ==
    SeqRun([NewVm(program) EXCEPT !.input = supplied], StepLimit(program), checks)

\* C37: a program run on the channel based VM with run_and_collect, its
\* input a finite stream, and on the queue based VM with the same values
\* queued: if one halts so does the other, with the same memory and the same
\* output (the Vec collected, the output log), and if one panics so does the
\* other.
C37_SameRunOnBothVms ==
    kind = "channel" /\ collector.state # "none" =>
        \A checks \in BOOLEAN :
            \E q \in {QueueRun(checks)} :
                /\ Halted(1) =>
                      /\ q.done /\ q.panic = NoPanic
                      /\ q.memory = vms[1].memory
                      /\ q.output = emitted
                      /\ collector.state = "done" => q.output = collected
                /\ vms[1].panic # NoPanic => q.panic # NoPanic /\ ~q.done
                /\ q.done => vms[1].panic = NoPanic
                /\ q.panic # NoPanic => ~vms[1].done

\* C37 witness: run_and_collect has returned for a program that stored an
\* input value and emitted values
C37_Witness ==
    /\ kind = "channel" /\ collector.state = "done" /\ Halted(1)
    /\ consumed # <<>> /\ Len(collected) >= 2
    /\ vms[1].memory # program
    /\ QueueRun(TRUE).output = collected

\* the VM of run_and_collect has halted while collect() is still at work
HaltedCollecting ==
    kind = "channel" /\ Halted(1) /\ collector.state = "collecting"

\* C38: Halt of the channel based VM releases its input stream and its
\* Sender, which closes the output channel; the values emitted before,
\* one still waiting in the channel included, are delivered and then
\* collect() meets the end of the stream: once the program has halted
\* run_and_collect returns, with exactly the values emitted, in order.
C38_HaltClosesAndDelivers ==
    /\ [](HaltedCollecting =>
            /\ vms[1].input = NoStream /\ vms[1].output = NoSender
            /\ chans[collector.chan].senders = 0
            /\ collected \o chans[collector.chan].buf = emitted)
    /\ [](kind = "channel" /\ collector.state = "done" =>
            Halted(1) /\ collected = emitted)
    /\ HaltedCollecting ~> (collector.state = "done" /\ collected = emitted)

\* C38 witness: the VM has halted with the value of its last Output still
\* waiting in the closed channel
C38_Witness ==
    /\ HaltedCollecting
    /\ chans[collector.chan].buf # <<>> /\ collected # <<>>
    /\ chans[collector.chan].senders = 0

\* C39: an instruction with an operand cell beyond the end of memory (a
\* three parameter instruction in the last three cells, a jump in the last
\* two, Input or Output in the last) panics while it is decoded: nothing is
\* executed and the VM is as before.  A Halt in the last cell is decoded and
\* halts the program.
C39_TruncatedInstruction ==
    /\ \A o \in 1..8 : IsOp(o) /\ ~InMem(ParamCount(o)) =>
          /\ last.instr.panic # NoPanic
          /\ Now.panic = last.instr.panic
          /\ Now.panic.msg \in {MsgIndexOutOfBounds, MsgUnknownMode}
          /\ StepUndone
    /\ IsOp(99) /\ Pre.ip = PreLen - 1 =>
          Now.panic = NoPanic /\ Now.done /\ last.instr.op = "Done"

\* C39 witness: an Add whose third operand cell is past the end of memory
\* has panicked at the slice index
C39_Witness ==
    /\ IsOp(1) /\ InMem(2) /\ ~InMem(3) /\ Decodable(2)
    /\ Now.panic.msg = MsgIndexOutOfBounds

\* the panics of the bounds checks of Memory
BoundsPanics == {MsgReadOutOfBounds, MsgWriteOutOfBounds}

\* the panics of an Input that has no value to take and of an Output that
\* has no channel, which come before the operand is accessed
NoChannelPanics(o) ==
    IF o = 3 THEN {MsgNoInputLeft, MsgNoInputChannel, MsgInputClosed}
    ELSE IF o = 4 THEN {MsgNoOutputChannel}
    ELSE {}

\* the latest step() decoded instruction o and got as far as parameter n:
\* the operands before it were read, and for n the target of a jump, the
\* jump is taken
Reached(o, n) ==
    /\ IsOp(o) /\ Decodable(ParamCount(o))
    /\ \A m \in 0..(n - 1) : Readable(m)
    /\ o \in {5, 6} /\ n = 1 => (o = 5 <=> Value(0) # 0)

\* C40: a negative cell is never taken for a valid address.  Used as the
\* address of a Position parameter, the access panics with the bounds panic
\* of Memory and the VM is as before; used as the target of a taken jump,
\* the next fetch panics with the bounds panic of Memory: no cell is read or
\* written through it.
C40_NegativeAddress ==
    /\ \A o \in 1..8 : \A n \in 0..(ParamCount(o) - 1) :
          Reached(o, n) /\ Digit(n) = 0 /\ PreCell(n + 1) < 0 =>
              /\ Now.panic.msg \in BoundsPanics \cup NoChannelPanics(o)
              /\ SameState(Pre, Now)
    /\ JumpTaken /\ Value(1) < 0 =>
          Now.panic = NoPanic /\ Now.ip >= Len(Now.memory)
    /\ Stepped /\ Pre.panic = NoPanic
       /\ (\E t \in Cells : t < 0 /\ Pre.ip = AsAddress(t)) =>
          /\ Now.panic.msg \in BoundsPanics
          /\ StepUndone

====
